---- MODULE Spec2Model ----
\* A model of the face warping / compositing engine of marvel-morpher-ai
\* (utils/faceMorphing.ts and its caller CharacterDisplay.compositeImages).
\*
\* Numbers.  The program computes in IEEE doubles; the model computes in exact
\* rationals <<n, d>> (d > 0, lowest terms).  Canvas pixels carry the set of
\* "inks" that were composited into them and an alpha class
\* (0 transparent, 1 translucent, 2 opaque) instead of four 8-bit channels.
EXTENDS Integers, Sequences, FiniteSets, TLC

VARIABLES
    \* ---- warpTriangle called on its own
    wpc,            \* "ready" before the call, "done" after it returned
    srcCanvas,      \* the source canvas handed to warpTriangle
    dstCanvas,      \* the destination canvas handed to warpTriangle
    dstBefore,      \* the destination canvas as it was when the call started
    srcBefore,      \* the source canvas as it was when the call started
    srcTriangle,    \* the srcTriangle argument
    dstTriangle,    \* the dstTriangle argument
    fills,          \* the fillRect calls the warpTriangle call made
    \* ---- the composite entry points
    cpc,            \* position of the running composite call
    entry,          \* which exported function / component method was entered
    userFace,       \* the user's face image (canvas or <img>)
    characterBodyImg,    \* the character body image
    userLandmarks,       \* sequence of landmark points, or NoLandmarks
    characterFaceRegion, \* [x, y, width, height]
    outputCanvas,   \* the canvas the call allocates, or NoCanvas
    morphCanvas,    \* morphFaceToCharacter's scratch canvas, or NoCanvas
    characterPoints, \* morphFaceToCharacter's characterPoints
    triangles,      \* morphFaceToCharacter's triangles
    allPoints,      \* getDelaunayTriangles' allPoints
    srcRect,        \* extractAndPositionFace's srcX, srcY, srcW, srcH
    triIdx,         \* index of the next mesh triangle to warp
    warped,         \* indices of the mesh triangles handed to warpTriangle
    calls,          \* the engine functions the call has invoked, in order
    outcome,        \* "none", "returned" or "threw"
    displayCanvas,  \* CharacterDisplay's canvasRef.current
    compositeImage, \* CharacterDisplay's compositeImage state (empty until a data URL is set)
    \* ---- a sequence of calls
    remembered,     \* an earlier call (arguments and returned canvas), if one is kept
    \* ---- the Index page and ChiefGuestSetup
    capturedFace,       \* Index state: "" or the captured image
    selectedCharacter,  \* Index state: "null" or a character id
    recognizedGuest,    \* Index state: "null" or a guest name
    guestPhotos,        \* Index state: guest name -> photo URL
    faceDescriptors,    \* Index state: guest name -> face descriptor
    modelsLoaded,       \* Index state
    uploadedPhotos,     \* ChiefGuestSetup state: guest name -> photo URL
    uploads,            \* per guest, the upload in flight with the state its closures hold
    captures,           \* the handleCapture calls awaiting matchFaceToReferences, each
                        \* with the references it passed and the guests removed then
    removed,            \* guests whose photo was removed and not uploaded again
    \* ---- WebcamCapture
    isActive,           \* the isActive prop (Index's isCameraActive)
    camMounted,         \* whether the component is mounted
    stream,             \* the component's stream state: NoStream or a stream
    effectStream,       \* the stream state seen by the effect that ran last
    pending,            \* getUserMedia calls of this instance not yet settled
    orphaned,           \* getUserMedia calls of unmounted instances not yet settled
    tracks,             \* per MediaStream obtained: "live" or "stopped"
    \* ---- CharacterDisplay over changing props
    props,              \* the character and faceImage props of the last render
    runs,               \* the compositeImages runs started, in order, with their position
    \* ---- the transform-character function
    fpc,                \* position of the request handler
    attempts,           \* the handler's attempts counter
    taskStatus,         \* the handler's taskStatus
    polls,              \* status polls made for the request
    observed,           \* the replies to the status polls so far
    imageFetched,       \* whether the result image was fetched
    response,           \* NoResponse or the response returned
    \* ---- matchFaceToReferences called on its own
    mpc,                    \* "idle" before the call, "done" after it settled
    capturedDescriptor,     \* whether a face was detected in the captured image
    referenceDescriptors,   \* the entries of the reference map, in iteration order,
                            \* each with its distance to the captured descriptor
    matchResult             \* what the call resolved to, or that it rejected

warpVars == <<wpc, srcCanvas, dstCanvas, dstBefore, srcBefore, srcTriangle, dstTriangle,
              fills>>
compVars == <<cpc, entry, userFace, characterBodyImg, userLandmarks, characterFaceRegion,
              outputCanvas, morphCanvas, characterPoints, triangles, triIdx, warped,
              calls, outcome,
              displayCanvas, compositeImage, allPoints, srcRect, remembered>>
pageVars == <<capturedFace, selectedCharacter, recognizedGuest, guestPhotos,
              faceDescriptors, modelsLoaded, uploadedPhotos, uploads, captures, removed>>
camVars == <<isActive, camMounted, stream, effectStream, pending, orphaned, tracks>>
dispVars == <<props, runs>>
fnVars == <<fpc, attempts, taskStatus, polls, observed, imageFetched, response>>
matchVars == <<mpc, capturedDescriptor, referenceDescriptors, matchResult>>
appVars == <<pageVars, camVars, dispVars, fnVars, matchVars>>
vars == <<warpVars, compVars, appVars>>

\* new Map()
EmptyMap == <<>>

\* the page before anything was uploaded or captured
PageInit ==
    /\ capturedFace = "" /\ selectedCharacter = "null" /\ recognizedGuest = "null"
    /\ guestPhotos = EmptyMap /\ faceDescriptors = EmptyMap /\ modelsLoaded = FALSE
    /\ uploadedPhotos = EmptyMap /\ uploads = EmptyMap /\ captures = EmptyMap
    /\ removed = {}

\* null as the value of the stream state; the streams are numbered from 1
NoStream == 0

\* WebcamCapture mounted with isActive false: its effect ran stopWebcam on no stream
CamInit ==
    /\ isActive = FALSE /\ camMounted = TRUE /\ stream = NoStream
    /\ effectStream = NoStream /\ pending = 0 /\ orphaned = 0 /\ tracks = <<>>

\* CharacterDisplay before its first render
DispInit == props = [character |-> "null", faceImage |-> ""] /\ runs = <<>>

\* no response returned yet
NoResponse == [status |-> 0, success |-> "none"]

\* a request has arrived at the transform-character function
FnInit ==
    /\ fpc = "request" /\ attempts = 0 /\ taskStatus = 0 /\ polls = 0
    /\ observed = {} /\ imageFetched = FALSE /\ response = NoResponse

NoMatch == [kind |-> "null", name |-> "", confidence |-> <<0, 1>>]

MatchInit ==
    /\ mpc = "idle" /\ capturedDescriptor = FALSE /\ referenceDescriptors = <<>>
    /\ matchResult = [NoMatch EXCEPT !.kind = "none"]

-----------------------------------------------------------------------------
\* Bounds of the model

\* width and height of the destination canvas of a lone warpTriangle call
DstSize == 4
\* width and height of the source canvas of a lone warpTriangle call
SrcSize == 3

-----------------------------------------------------------------------------
\* Exact rational arithmetic standing for the program's doubles

RECURSIVE GCD(_, _)
GCD(a, b) == IF b = 0 THEN a ELSE GCD(b, a % b)

Abs(n) == IF n < 0 THEN -n ELSE n

\* the rational n/d in lowest terms with a positive denominator (d # 0)
Rat(n, d) ==
    LET g == GCD(Abs(n), Abs(d))
        s == IF d < 0 THEN -1 ELSE 1
    IN  <<(s * n) \div g, (s * d) \div g>>

I(n) == <<n, 1>>
\* sums and comparisons go through the least common denominator, which keeps
\* the intermediate products small
RAdd(a, b) ==
    LET g == GCD(a[2], b[2])
    IN  Rat(a[1] * (b[2] \div g) + b[1] * (a[2] \div g), (a[2] \div g) * b[2])
RSub(a, b) ==
    LET g == GCD(a[2], b[2])
    IN  Rat(a[1] * (b[2] \div g) - b[1] * (a[2] \div g), (a[2] \div g) * b[2])
RMul(a, b) == Rat(a[1] * b[1], a[2] * b[2])
RDiv(a, b) == Rat(a[1] * b[2], a[2] * b[1])
RLt(a, b)  ==
    LET g == GCD(a[2], b[2])
    IN  a[1] * (b[2] \div g) < b[1] * (a[2] \div g)
RLe(a, b)  ==
    LET g == GCD(a[2], b[2])
    IN  a[1] * (b[2] \div g) <= b[1] * (a[2] \div g)
RAbs(a)    == <<Abs(a[1]), a[2]>>
RMin(a, b) == IF RLt(b, a) THEN b ELSE a
RMax(a, b) == IF RLt(a, b) THEN b ELSE a
\* Math.floor and Math.ceil, as integers
RFloor(a)  == a[1] \div a[2]
RCeil(a)   == -((-a[1]) \div a[2])
IMin(a, b) == IF b < a THEN b ELSE a
IMax(a, b) == IF a < b THEN b ELSE a

\* a point {x, y}
Pt(x, y) == [x |-> x, y |-> y]
\* the point with integer coordinates (x, y)
IPt(x, y) == Pt(I(x), I(y))

-----------------------------------------------------------------------------
\* Canvases

Transparent == [ink |-> {}, a |-> 0]

\* document.createElement('canvas') with width and height set: all transparent
NewCanvas(w, h) ==
    [width |-> w, height |-> h,
     data |-> [p \in (0 .. w - 1) \X (0 .. h - 1) |-> Transparent]]

\* the canvas default globalCompositeOperation 'source-over' for one pixel:
\* an opaque source replaces the backdrop, a transparent one leaves it, a
\* translucent one mixes with whatever the backdrop holds
SourceOver(s, d) ==
    IF s.a = 2 THEN s
    ELSE IF s.a = 0 THEN d
    ELSE IF d.a = 0 THEN s
    ELSE [ink |-> s.ink \cup d.ink, a |-> d.a]

-----------------------------------------------------------------------------
\* warpTriangle

\* 1e-10 is 1 / (DetEpsRootInv * DetEpsRootInv)
DetEpsRootInv == 100000

\* Math.abs(det) < 1e-10, without forming 10^10
DetBelowEps(det) ==
    Abs(det[1]) <= ((det[2] - 1) \div DetEpsRootInv) \div DetEpsRootInv

\* the bounding box of the destination triangle
BoundingBox(t) ==
    [minX |-> RFloor(RMin(t[1].x, RMin(t[2].x, t[3].x))),
     maxX |-> RCeil(RMax(t[1].x, RMax(t[2].x, t[3].x))),
     minY |-> RFloor(RMin(t[1].y, RMin(t[2].y, t[3].y))),
     maxY |-> RCeil(RMax(t[1].y, RMax(t[2].y, t[3].y)))]

\* det of the destination triangle
Det(t) ==
    RSub(RMul(RSub(t[2].x, t[1].x), RSub(t[3].y, t[1].y)),
         RMul(RSub(t[3].x, t[1].x), RSub(t[2].y, t[1].y)))

\* the pixels the two for loops run over
LoopPixels(dst, t) ==
    LET b == BoundingBox(t)
    IN  {p \in (IMax(0, b.minX) .. IMin(dst.width, b.maxX) - 1)
                 \X (IMax(0, b.minY) .. IMin(dst.height, b.maxY) - 1) : TRUE}

\* the barycentric coordinates w0, w1, w2 the loop body computes for pixel (x, y)
Barycentric(t, det, x, y) ==
    LET p1 == t[1]
        p2 == t[2]
        p3 == t[3]
        w1 == RDiv(RSub(RMul(RSub(p2.x, p1.x), RSub(I(y), p1.y)),
                        RMul(RSub(p2.y, p1.y), RSub(I(x), p1.x))), det)
        w2 == RDiv(RSub(RMul(RSub(p3.x, p2.x), RSub(I(y), p2.y)),
                        RMul(RSub(p3.y, p2.y), RSub(I(x), p2.x))), det)
        w0 == RSub(RSub(I(1), w1), w2)
    IN  [w0 |-> w0, w1 |-> w1, w2 |-> w2]

\* the test with w0 forgotten
InsideTriangleW1W2(w) == RLe(I(0), w.w1) /\ RLe(I(0), w.w2)

\* the test of w0 alone
InsideTriangleW0(w) == RLe(I(0), w.w0)

\* "Check if point is inside triangle"
InsideTriangle(w) == RLe(I(0), w.w0) /\ RLe(I(0), w.w1) /\ RLe(I(0), w.w2)

\* "Map to source triangle": srcX, srcY
MapToSource(w, q) ==
    Pt(RAdd(RAdd(RMul(w.w0, q[1].x), RMul(w.w1, q[2].x)), RMul(w.w2, q[3].x)),
       RAdd(RAdd(RMul(w.w0, q[1].y), RMul(w.w1, q[2].y)), RMul(w.w2, q[3].y)))

\* the range test with the last row and column let through
SourceInRangeInclusive(src, s) ==
    /\ RLe(I(0), s.x) /\ RLe(s.x, I(src.width - 1))
    /\ RLe(I(0), s.y) /\ RLe(s.y, I(src.height - 1))

\* the test that guards the sample
SourceInRange(src, s) ==
    /\ RLe(I(0), s.x) /\ RLt(s.x, I(src.width - 1))
    /\ RLe(I(0), s.y) /\ RLt(s.y, I(src.height - 1))

\* the source pixel getImageData reads for the mapped coordinate s
SamplePosition(s) == <<RFloor(s.x), RFloor(s.y)>>

\* fillStyle = rgba(srcData...) ; fillRect(x, y, 1, 1) on the destination pixel
FillPixel(srcData, dstPixel) == SourceOver(srcData, dstPixel)

\* the fillRect calls of the loop nest for a destination triangle whose det is
\* det: one record per pixel filled, with the mapped source coordinate
RasterFills(src, dst, q, t, det) ==
    LET mapped == {[p |-> p, w |-> Barycentric(t, det, p[1], p[2])] :
                        p \in LoopPixels(dst, t)}
        inside == {[p |-> m.p, s |-> MapToSource(m.w, q)] :
                        m \in {n \in mapped : InsideTriangle(n.w)}}
    IN  {f \in inside : SourceInRange(src, f.s)}

\* a zero det replaced by 1 instead of returning
WarpFillsClampDet(src, dst, q, t) ==
    RasterFills(src, dst, q, t, IF Det(t) = I(0) THEN I(1) ELSE Det(t))

\* every fillRect call one warpTriangle call makes
WarpFills(src, dst, q, t) ==
    IF DetBelowEps(Det(t)) THEN {} ELSE RasterFills(src, dst, q, t, Det(t))

\* the destination canvas after the fills fs
ApplyFills(src, dst, fs) ==
    [dst EXCEPT !.data =
        [p \in DOMAIN dst.data |->
            IF \E f \in fs : f.p = p
            THEN LET f == CHOOSE g \in fs : g.p = p
                 IN  FillPixel(src.data[SamplePosition(f.s)], dst.data[p])
            ELSE dst.data[p]]]

\* the destination canvas after warpTriangle(src, dst, srcTriangle, dstTriangle)
warpTriangle(src, dst, q, t) == ApplyFills(src, dst, WarpFills(src, dst, q, t))

-----------------------------------------------------------------------------
\* warpTriangle called on its own: the inputs

\* an image whose pixel (x, y) holds the ink <<tag, x, y>>; the pixels listed in
\* translucent / transparent have alpha class 1 / 0, the others are opaque
Image(tag, w, h, translucent, transparent) ==
    [width |-> w, height |-> h,
     data |-> [p \in (0 .. w - 1) \X (0 .. h - 1) |->
                 [ink |-> {<<tag, p[1], p[2]>>},
                  a |-> IF p \in transparent THEN 0
                        ELSE IF p \in translucent THEN 1 ELSE 2]]]

SrcCanvases == {Image("src", SrcSize, SrcSize, {<<1, 0>>}, {<<0, 1>>})}

DstCanvases == {NewCanvas(DstSize, DstSize), Image("dst", DstSize, DstSize, {}, {})}

\* vertices of the destination triangles: inside the canvas, on its last
\* row and column, between pixels, and outside the canvas on either side
DstVertices ==
    {IPt(-2, -2), IPt(-2, 1), IPt(1, -2), IPt(0, 0), IPt(DstSize - 1, 0),
     IPt(0, DstSize - 1), Pt(Rat(1, 2), Rat(2 * DstSize - 3, 2)),
     IPt(DstSize + 1, DstSize + 1)}

\* vertices of the source triangles: inside the source, on its last row and
\* column (where the range test fails) and left of it
SrcVertices == {IPt(0, 0), IPt(SrcSize - 1, 0), IPt(-1, SrcSize - 1)}

Triangles(V) == {<<a, b, c>> : a \in V, b \in V, c \in V}

NoTriangle == <<>>

Init ==
    /\ wpc = "ready"
    /\ srcCanvas \in SrcCanvases
    /\ dstCanvas \in DstCanvases
    /\ dstBefore = dstCanvas
    /\ srcBefore = srcCanvas
    /\ srcTriangle = NoTriangle
    /\ dstTriangle = NoTriangle
    /\ fills = {}
    /\ cpc = "idle" /\ entry = "none" /\ userFace = "none"
    /\ characterBodyImg = "none" /\ userLandmarks = "none"
    /\ characterFaceRegion = "none" /\ outputCanvas = "none"
    /\ morphCanvas = "none" /\ characterPoints = <<>> /\ triangles = <<>>
    /\ triIdx = 0 /\ warped = {} /\ calls = <<>>
    /\ outcome = "none" /\ displayCanvas = "none" /\ compositeImage = <<>>
    /\ allPoints = <<>> /\ srcRect = "none" /\ remembered = {}
    /\ PageInit /\ CamInit /\ DispInit /\ FnInit /\ MatchInit

\* one call warpTriangle(srcCanvas, dstCanvas, q, t), from entry to return
WarpTriangleCall(q, t) ==
    /\ wpc = "ready"
    /\ wpc' = "done"
    /\ srcTriangle' = q
    /\ dstTriangle' = t
    /\ fills' = WarpFills(srcCanvas, dstCanvas, q, t)
    /\ dstCanvas' = ApplyFills(srcCanvas, dstCanvas, fills')
    /\ UNCHANGED <<srcCanvas, dstBefore, srcBefore, compVars, appVars>>

Next ==
    /\ wpc = "ready"
    /\ \E q \in Triangles(SrcVertices), t \in Triangles(DstVertices) :
            WarpTriangleCall(q, t)

Spec == Init /\ [][Next]_vars

-----------------------------------------------------------------------------
\* getDelaunayTriangles

\* the points array extended by the four corners of the canvas
AllPoints(points, width, height) ==
    points \o <<IPt(0, 0), IPt(width - 1, 0), IPt(0, height - 1),
                IPt(width - 1, height - 1)>>

\* a fan around the last corner point of a 68-point set instead of the nose tip
FanToCorner(lo, hi) == [k \in 1 .. (hi - lo) |-> <<lo + k - 1, lo + k, 72>>]

\* the triangles [i, i + 1, 33] pushed by a loop for (i = lo; i < hi; i++)
FanTo33(lo, hi) == [k \in 1 .. (hi - lo) |-> <<lo + k - 1, lo + k, 33>>]

\* a jaw fan that stops at the canvas width
getDelaunayTrianglesWithinWidth(points, width, height) ==
    FanTo33(0, IMin(16, width))
    \o <<<<36, 37, 38>>, <<36, 38, 39>>, <<39, 38, 40>>, <<39, 40, 41>>>>
    \o <<<<42, 43, 44>>, <<42, 44, 45>>, <<45, 44, 46>>, <<45, 46, 47>>>>
    \o FanTo33(27, 30)
    \o FanTo33(48, 59)
    \o <<<<59, 48, 33>>>>

\* the eye triangles pushed before the jaw fan
getDelaunayTrianglesEyesFirst(points, width, height) ==
    <<<<36, 37, 38>>, <<36, 38, 39>>, <<39, 38, 40>>, <<39, 40, 41>>>>
    \o <<<<42, 43, 44>>, <<42, 44, 45>>, <<45, 44, 46>>, <<45, 46, 47>>>>
    \o FanTo33(0, 16)
    \o FanTo33(27, 30)
    \o FanTo33(48, 59)
    \o <<<<59, 48, 33>>>>

\* the triangle list returned (indices are 0-based, as in the program)
getDelaunayTriangles(points, width, height) ==
    FanTo33(0, 16)
    \o <<<<36, 37, 38>>, <<36, 38, 39>>, <<39, 38, 40>>, <<39, 40, 41>>>>
    \o <<<<42, 43, 44>>, <<42, 44, 45>>, <<45, 44, 46>>, <<45, 46, 47>>>>
    \o FanTo33(27, 30)
    \o FanTo33(48, 59)
    \o <<<<59, 48, 33>>>>

\* points[i] for the 0-based index i
At(points, i) == points[i + 1]

-----------------------------------------------------------------------------
\* Canvas drawing used by the composites

\* ctx.drawImage(img, 0, 0) onto a canvas of the same size as img
DrawImageAtOrigin(canvas, img) ==
    [canvas EXCEPT !.data =
        [p \in DOMAIN canvas.data |->
            IF p \in DOMAIN img.data THEN SourceOver(img.data[p], canvas.data[p])
            ELSE canvas.data[p]]]

\* the pixels within d of pixel p (the support of a blur of d px)
Near(canvas, p, d) ==
    {n \in DOMAIN canvas.data : Abs(n[1] - p[1]) <= d /\ Abs(n[2] - p[2]) <= d}

\* 'blur(3px)'
BlurPx == 3

\* pixel p of canvas seen through ctx.filter = blur(d px): a mix of the pixels
\* near p
Blurred(canvas, p, d) ==
    LET near == Near(canvas, p, d)
        inks == UNION {canvas.data[n].ink : n \in {m \in near : canvas.data[m].a # 0}}
    IN  IF \A n \in near : canvas.data[n].a = 0 THEN Transparent
        ELSE IF \A n \in near : canvas.data[n].a = 2 THEN [ink |-> inks, a |-> 2]
        ELSE [ink |-> inks, a |-> 1]

\* ctx.filter = 'blur(d px)'; ctx.drawImage(img, 0, 0)
DrawImageBlurred(canvas, img, d) ==
    [canvas EXCEPT !.data =
        [p \in DOMAIN canvas.data |->
            IF p \in DOMAIN img.data
            THEN SourceOver(Blurred(img, p, d), canvas.data[p])
            ELSE canvas.data[p]]]

\* a scratch canvas kept from the call before when it has the right size
ScratchCanvasReused(output) ==
    IF morphCanvas.width = output.width /\ morphCanvas.height = output.height
    THEN morphCanvas
    ELSE NewCanvas(output.width, output.height)

\* const morphCanvas = document.createElement('canvas') with the width and
\* height of outputCanvas
ScratchCanvas(output) == NewCanvas(output.width, output.height)

\* an output canvas with the body image's width and height exchanged
OutputCanvasTransposed(body) == NewCanvas(body.height, body.width)

\* const outputCanvas = document.createElement('canvas') with
\* width = characterBodyImg.width and height = characterBodyImg.height
OutputCanvas(body) == NewCanvas(body.width, body.height)

-----------------------------------------------------------------------------
\* morphFaceToCharacter

RECURSIVE RMinOf(_)
RMinOf(S) == LET a == CHOOSE v \in S : TRUE
             IN  IF S = {a} THEN a ELSE RMin(a, RMinOf(S \ {a}))
RECURSIVE RMaxOf(_)
RMaxOf(S) == LET a == CHOOSE v \in S : TRUE
             IN  IF S = {a} THEN a ELSE RMax(a, RMaxOf(S \ {a}))

\* userBounds of a non-empty points array
UserBounds(points) ==
    [minX |-> RMinOf({points[i].x : i \in DOMAIN points}),
     maxX |-> RMaxOf({points[i].x : i \in DOMAIN points}),
     minY |-> RMinOf({points[i].y : i \in DOMAIN points}),
     maxY |-> RMaxOf({points[i].y : i \in DOMAIN points})]

\* the value of 0 / 0, which no comparison holds for
NaN == <<0, 0>>
IsNaN(v) == v[2] = 0

\* charFace + ((p - min) / userSize) * charFaceSize for one coordinate; when
\* userSize is 0 every p equals min and the quotient is 0 / 0
Rescale(p, min, userSize, charFace, charFaceSize) ==
    IF userSize = I(0) THEN NaN
    ELSE RAdd(charFace, RMul(RDiv(RSub(p, min), userSize), charFaceSize))

\* characterPoints: the user landmarks mapped into the character face region
CharacterPoints(points, region) ==
    IF points = <<>> THEN <<>>
    ELSE LET b == UserBounds(points)
             userWidth == RSub(b.maxX, b.minX)
             userHeight == RSub(b.maxY, b.minY)
         IN  [i \in DOMAIN points |->
                Pt(Rescale(points[i].x, b.minX, userWidth, region.x, region.width),
                   Rescale(points[i].y, b.minY, userHeight, region.y, region.height))]

\* the guard with the last point of the array taken for out of range
TriangleInRangeStrict(triangle, points) ==
    /\ triangle[1] < Len(points) - 1
    /\ triangle[2] < Len(points) - 1
    /\ triangle[3] < Len(points) - 1

\* the guard of the warp loop for one triangle
TriangleInRange(triangle, points) ==
    /\ triangle[1] < Len(points)
    /\ triangle[2] < Len(points)
    /\ triangle[3] < Len(points)

\* entry of morphFaceToCharacter up to the warp loop: the output canvas is
\* created and the character body drawn on it, the landmarks are mapped into
\* the face region, the mesh is built and the scratch canvas is created
MorphBegin(face, body, landmarks, region) ==
    /\ cpc = "idle"
    /\ cpc' = "morph_warp"
    /\ entry' = "morphFaceToCharacter"
    /\ userFace' = face
    /\ characterBodyImg' = body
    /\ userLandmarks' = landmarks
    /\ characterFaceRegion' = region
    /\ outputCanvas' = DrawImageAtOrigin(OutputCanvas(body), body)
    /\ characterPoints' = CharacterPoints(landmarks.positions, region)
    /\ triangles' = getDelaunayTriangles(landmarks.positions, face.width, face.height)
    /\ allPoints' = AllPoints(landmarks.positions, face.width, face.height)
    /\ morphCanvas' = ScratchCanvas(outputCanvas')
    /\ triIdx' = 1
    /\ warped' = {}
    /\ calls' = <<"morphFaceToCharacter", "getDelaunayTriangles">>
    /\ outcome' = "none"
    /\ UNCHANGED <<displayCanvas, compositeImage, appVars, warpVars,
                   srcRect, remembered>>

\* one iteration of "for (const triangle of triangles)"
MorphWarpNext ==
    /\ cpc = "morph_warp"
    /\ triIdx <= Len(triangles)
    /\ LET triangle == triangles[triIdx]
           userPoints == userLandmarks.positions
       IN  IF TriangleInRange(triangle, userPoints)
           THEN /\ morphCanvas' =
                     warpTriangle(userFace, morphCanvas,
                         <<At(userPoints, triangle[1]),
                           At(userPoints, triangle[2]),
                           At(userPoints, triangle[3])>>,
                         <<At(characterPoints, triangle[1]),
                           At(characterPoints, triangle[2]),
                           At(characterPoints, triangle[3])>>)
                /\ warped' = warped \cup {triIdx}
                /\ calls' = Append(calls, "warpTriangle")
           ELSE UNCHANGED <<morphCanvas, warped, calls>>
    /\ triIdx' = triIdx + 1
    /\ UNCHANGED <<cpc, entry, userFace, characterBodyImg, userLandmarks,
                   characterFaceRegion, outputCanvas, characterPoints, triangles,
                   outcome, displayCanvas, compositeImage, appVars, warpVars,
                   allPoints, srcRect, remembered>>

\* the blend done in place: the scratch canvas is drawn on the caller's body
\* image, which is returned
MorphBlendInPlace ==
    /\ cpc = "morph_warp"
    /\ triIdx > Len(triangles)
    /\ characterBodyImg' = DrawImageBlurred(characterBodyImg, morphCanvas, BlurPx)
    /\ outputCanvas' = characterBodyImg'
    /\ cpc' = "done"
    /\ outcome' = "returned"
    /\ UNCHANGED <<entry, userFace, userLandmarks,
                   characterFaceRegion, morphCanvas, characterPoints, triangles,
                   triIdx, warped, calls, displayCanvas, compositeImage, appVars, warpVars,
                   allPoints, srcRect, remembered>>

\* after the loop: the scratch canvas is drawn on the output through the blur
\* filter and the output canvas is returned
MorphBlend ==
    /\ cpc = "morph_warp"
    /\ triIdx > Len(triangles)
    /\ outputCanvas' = DrawImageBlurred(outputCanvas, morphCanvas, BlurPx)
    /\ cpc' = "done"
    /\ outcome' = "returned"
    /\ UNCHANGED <<entry, userFace, characterBodyImg, userLandmarks,
                   characterFaceRegion, morphCanvas, characterPoints, triangles,
                   triIdx, warped, calls, displayCanvas, compositeImage, appVars, warpVars,
                   allPoints, srcRect, remembered>>

-----------------------------------------------------------------------------
\* extractAndPositionFace

\* 'blur(8px)' of the glow
GlowBlurPx == 8

\* the centre of pixel p
Centre(p) == Pt(Rat(2 * p[1] + 1, 2), Rat(2 * p[2] + 1, 2))

\* squared distance of two points
Dist2(a, b) ==
    RAdd(RMul(RSub(a.x, b.x), RSub(a.x, b.x)), RMul(RSub(a.y, b.y), RSub(a.y, b.y)))

\* ctx.arc(c.x, c.y, radius, 0, 2*PI); ctx.clip(): the pixels left drawable
ClipCircle(canvas, c, radius) ==
    {p \in DOMAIN canvas.data :
        RLt(I(0), radius) /\ RLe(Dist2(Centre(p), c), RMul(radius, radius))}

\* ctx.drawImage(img, sx, sy, sw, sh, dx, dy, dw, dh) restricted to the pixels
\* of clip, sampled at the nearest source pixel.  Nothing is drawn when a
\* width or height is 0 (the landmark sets of the model never make one negative
\* without ctx.arc having thrown first).
DrawImageClipped(canvas, img, sx, sy, sw, sh, dx, dy, dw, dh, clip) ==
    IF ~(RLt(I(0), sw) /\ RLt(I(0), sh) /\ RLt(I(0), dw) /\ RLt(I(0), dh))
    THEN canvas
    ELSE [canvas EXCEPT !.data =
            [p \in DOMAIN canvas.data |->
                LET c == Centre(p)
                    u == RAdd(sx, RMul(RDiv(RSub(c.x, dx), dw), sw))
                    v == RAdd(sy, RMul(RDiv(RSub(c.y, dy), dh), sh))
                    at == <<RFloor(u), RFloor(v)>>
                IN  IF /\ p \in clip
                       /\ RLe(dx, c.x) /\ RLt(c.x, RAdd(dx, dw))
                       /\ RLe(dy, c.y) /\ RLt(c.y, RAdd(dy, dh))
                       /\ at \in DOMAIN img.data
                    THEN SourceOver(img.data[at], canvas.data[p])
                    ELSE canvas.data[p]]]

\* the 'lighter' fill of the radial gradient disc of radius 1.2 * radius through
\* blur(8px): every pixel the blurred disc reaches gains the glow
DrawGlow(canvas, c, radius) ==
    IF ~RLt(I(0), radius) THEN canvas
    ELSE LET reach == RAdd(RMul(Rat(12, 10), radius), I(GlowBlurPx))
         IN  [canvas EXCEPT !.data =
                [p \in DOMAIN canvas.data |->
                    IF RLe(Dist2(Centre(p), c), RMul(reach, reach))
                    THEN [canvas.data[p] EXCEPT !.ink = @ \cup {<<"glow">>}]
                    ELSE canvas.data[p]]]

\* a crop with the same padding above and below as left and right
FaceCropEvenPadding(img, positions) ==
    IF positions = <<>> THEN [srcX |-> I(0), srcY |-> I(0), srcW |-> I(0), srcH |-> I(0)]
    ELSE
    LET b == UserBounds(positions)
        faceWidth == RSub(b.maxX, b.minX)
        faceHeight == RSub(b.maxY, b.minY)
        padding == RMul(faceWidth, Rat(3, 10))
        srcX == RMax(I(0), RSub(b.minX, padding))
        srcY == RMax(I(0), RSub(b.minY, padding))
    IN  [srcX |-> srcX, srcY |-> srcY,
         srcW |-> RMin(RSub(I(img.width), srcX), RAdd(faceWidth, RMul(padding, I(2)))),
         srcH |-> RMin(RSub(I(img.height), srcY),
                       RAdd(faceHeight, RMul(padding, I(2))))]

\* srcX, srcY, srcW, srcH: the padded landmark box cropped from the face image
\* (an empty positions array makes them NaN or infinite: drawImage then draws
\* nothing, which a zero width stands for)
FaceCrop(img, positions) ==
    IF positions = <<>> THEN [srcX |-> I(0), srcY |-> I(0), srcW |-> I(0), srcH |-> I(0)]
    ELSE
    LET b == UserBounds(positions)
        faceWidth == RSub(b.maxX, b.minX)
        faceHeight == RSub(b.maxY, b.minY)
        padding == RMul(faceWidth, Rat(3, 10))
        srcX == RMax(I(0), RSub(b.minX, padding))
        srcY == RMax(I(0), RSub(b.minY, RMul(padding, Rat(3, 2))))
    IN  [srcX |-> srcX, srcY |-> srcY,
         srcW |-> RMin(RSub(I(img.width), srcX), RAdd(faceWidth, RMul(padding, I(2)))),
         srcH |-> RMin(RSub(I(img.height), srcY),
                       RAdd(faceHeight, RMul(padding, Rat(5, 2))))]

\* the crop before extractAndPositionFace has computed one
NoCrop == [srcX |-> I(0), srcY |-> I(0), srcW |-> I(0), srcH |-> I(0)]

\* centerX, centerY of the face region
RegionCentre(region) ==
    Pt(RAdd(region.x, RDiv(region.width, I(2))), RAdd(region.y, RDiv(region.height, I(2))))

\* radius of the clipping circle
RegionRadius(region) == RDiv(RMin(region.width, region.height), I(2))

\* the canvas extractAndPositionFace returns (its radius is not negative)
extractAndPositionFace(img, body, positions, region) ==
    LET crop == FaceCrop(img, positions)
        centre == RegionCentre(region)
        radius == RegionRadius(region)
        base == DrawImageAtOrigin(OutputCanvas(body), body)
        face == DrawImageClipped(base, img, crop.srcX, crop.srcY, crop.srcW, crop.srcH,
                                 region.x, region.y, region.width, region.height,
                                 ClipCircle(base, centre, radius))
    IN  DrawGlow(face, centre, radius)

\* ctx.arc throws IndexSizeError for a negative radius
ArcThrows(radius) == RLt(radius, I(0))

\* one call of extractAndPositionFace, from entry to return or throw; when
\* ctx.arc throws, the canvas holds the character body drawn before it
ExtractCall(face, body, landmarks, region) ==
    /\ cpc = "idle"
    /\ cpc' = "done"
    /\ entry' = "extractAndPositionFace"
    /\ userFace' = face
    /\ characterBodyImg' = body
    /\ userLandmarks' = landmarks
    /\ characterFaceRegion' = region
    /\ calls' = <<"extractAndPositionFace">>
    /\ srcRect' = FaceCrop(face, landmarks.positions)
    /\ IF ArcThrows(RegionRadius(region))
       THEN /\ outcome' = "threw"
            /\ outputCanvas' = DrawImageAtOrigin(OutputCanvas(body), body)
       ELSE /\ outcome' = "returned"
            /\ outputCanvas' = extractAndPositionFace(face, body, landmarks.positions,
                                                      region)
    /\ UNCHANGED <<morphCanvas, characterPoints, triangles, triIdx, warped,
                   displayCanvas, compositeImage, appVars, warpVars,
                   allPoints, remembered>>

-----------------------------------------------------------------------------
\* CharacterDisplay.compositeImages

\* what detectFaceLandmarks resolves to when no face is found
NoLandmarks == [positions |-> <<>>, detected |-> FALSE]

NoImage == NewCanvas(0, 0)

\* the characterFaceRegion compositeImages derives from the body image; the
\* simple overlay uses the same rectangle as faceX, faceY, faceWidth, faceHeight
DisplayFaceRegion(bodyImg) ==
    [x |-> RMul(I(bodyImg.width), Rat(32, 100)),
     y |-> RMul(I(bodyImg.height), Rat(8, 100)),
     width |-> RMul(I(bodyImg.width), Rat(35, 100)),
     height |-> RMul(I(bodyImg.width), Rat(35, 100))]

\* the simple overlay drawn when no landmarks were detected
SimpleOverlay(faceImg, bodyImg) ==
    LET r == DisplayFaceRegion(bodyImg)
        base == DrawImageAtOrigin(NewCanvas(bodyImg.width, bodyImg.height), bodyImg)
    IN  DrawImageClipped(base, faceImg, I(0), I(0), I(faceImg.width), I(faceImg.height),
                         r.x, r.y, r.width, r.height,
                         ClipCircle(base, RegionCentre(r), RDiv(r.width, I(2))))

\* compositeImages is entered with both props set and starts loading the images
CompositeImagesStart(face, body) ==
    /\ cpc = "idle"
    /\ cpc' = "loading"
    /\ entry' = "compositeImages"
    /\ userFace' = face
    /\ characterBodyImg' = body
    /\ calls' = <<"compositeImages">>
    /\ UNCHANGED <<userLandmarks, characterFaceRegion, outputCanvas, morphCanvas,
                   characterPoints, triangles, triIdx, warped, outcome,
                   displayCanvas, compositeImage, appVars, warpVars,
                   allPoints, srcRect, remembered>>

\* both images loaded
CompositeLoaded ==
    /\ cpc = "loading"
    /\ cpc' = "detect"
    /\ UNCHANGED <<entry, userFace, characterBodyImg, userLandmarks,
                   characterFaceRegion, outputCanvas, morphCanvas, characterPoints,
                   triangles, triIdx, warped, calls, outcome, displayCanvas,
                   compositeImage, appVars, warpVars,
                   allPoints, srcRect, remembered>>

\* an image failed to load: the rejection is caught and logged
CompositeLoadError ==
    /\ cpc = "loading"
    /\ cpc' = "done"
    /\ outcome' = "caught"
    /\ UNCHANGED <<entry, userFace, characterBodyImg, userLandmarks,
                   characterFaceRegion, outputCanvas, morphCanvas, characterPoints,
                   triangles, triIdx, warped, calls, displayCanvas, compositeImage,
                   appVars, warpVars,
                   allPoints, srcRect, remembered>>

\* await detectFaceLandmarks(faceImg) resolves to landmarks or to null
DetectFaceLandmarks(landmarks) ==
    /\ cpc = "detect"
    /\ cpc' = "compose"
    /\ userLandmarks' = landmarks
    /\ calls' = Append(calls, "detectFaceLandmarks")
    /\ UNCHANGED <<entry, userFace, characterBodyImg, characterFaceRegion,
                   outputCanvas, morphCanvas, characterPoints, triangles, triIdx,
                   warped, outcome, displayCanvas, compositeImage, appVars, warpVars,
                   allPoints, srcRect, remembered>>

\* no landmarks: the simple overlay is drawn on the component's canvas and
\* stored as the composite image
CompositeOverlay ==
    /\ cpc = "compose"
    /\ ~userLandmarks.detected
    /\ displayCanvas' = SimpleOverlay(userFace, characterBodyImg)
    /\ compositeImage' = <<displayCanvas'.data>>
    /\ cpc' = "done"
    /\ outcome' = "returned"
    /\ UNCHANGED <<entry, userFace, characterBodyImg, userLandmarks,
                   characterFaceRegion, outputCanvas, morphCanvas, characterPoints,
                   triangles, triIdx, warped, calls, appVars, warpVars,
                   allPoints, srcRect, remembered>>

\* landmarks detected: extractAndPositionFace is called with the derived face
\* region, its canvas is copied to the component's canvas and stored
CompositeExtract ==
    /\ cpc = "compose"
    /\ userLandmarks.detected
    /\ LET region == DisplayFaceRegion(characterBodyImg)
           body == characterBodyImg
       IN  /\ characterFaceRegion' = region
           /\ calls' = Append(calls, "extractAndPositionFace")
           /\ srcRect' = FaceCrop(userFace, userLandmarks.positions)
           /\ IF ArcThrows(RegionRadius(region))
              THEN /\ outcome' = "caught"
                   /\ outputCanvas' =
                        DrawImageAtOrigin(OutputCanvas(body), body)
                   /\ UNCHANGED <<displayCanvas, compositeImage>>
              ELSE /\ outcome' = "returned"
                   /\ outputCanvas' = extractAndPositionFace(userFace, body,
                                            userLandmarks.positions, region)
                   /\ displayCanvas' =
                        DrawImageAtOrigin(NewCanvas(outputCanvas'.width,
                                                    outputCanvas'.height), outputCanvas')
                   /\ compositeImage' = <<displayCanvas'.data>>
    /\ cpc' = "done"
    /\ UNCHANGED <<entry, userFace, characterBodyImg, userLandmarks, morphCanvas,
                   characterPoints, triangles, triIdx, warped, appVars, warpVars,
                   allPoints, remembered>>

-----------------------------------------------------------------------------
\* The composite entry points: the inputs

\* width and height of the user's face image
FaceSize == 10
\* width and height of the character body image
BodySize == 16

FaceImages == {Image("face", FaceSize, FaceSize, {}, {})}
\* width of the wide character body image
WideBodyWidth == 24

BodyImages == {Image("body", BodySize, BodySize, {}, {}),
               Image("body", WideBodyWidth, BodySize, {}, {})}

\* the square body image alone
CallBodyImages == {Image("body", BodySize, BodySize, {}, {})}

\* the left half of the jaw line, from the ear down to the chin
JawLeft == <<IPt(0, 2), IPt(0, 3), IPt(0, 4), Pt(Rat(1, 2), I(5)), IPt(1, 6), IPt(2, 7),
             Pt(I(3), Rat(15, 2)), Pt(Rat(7, 2), I(8)), IPt(4, 8)>>
LeftEye == <<Pt(Rat(3, 2), Rat(5, 2)), IPt(2, 2), IPt(3, 2), Pt(Rat(7, 2), Rat(5, 2)),
             IPt(3, 3), IPt(2, 3)>>
Mouth == <<Pt(Rat(5, 2), Rat(13, 2)), IPt(3, 6), Pt(Rat(7, 2), I(6)), IPt(4, 6),
           Pt(Rat(9, 2), I(6)), IPt(5, 6), Pt(Rat(11, 2), Rat(13, 2)), IPt(5, 7),
           Pt(Rat(9, 2), I(7)), IPt(4, 7), Pt(Rat(7, 2), I(7)), IPt(3, 7)>>

\* landmark i (0-based) of an upright face in the 68-point convention: jaw
\* 0..16, brows 17..26, nose 27..35 (33 the tip), eyes 36..47, mouth 48..67;
\* indices from 68 on are surplus points
Landmark(i) ==
    CASE i <= 8 -> JawLeft[i + 1]
      [] i \in 9 .. 16 -> Pt(RSub(I(8), JawLeft[17 - i].x), JawLeft[17 - i].y)
      [] i \in 17 .. 21 -> Pt(Rat(i - 15, 2), I(1))
      [] i \in 22 .. 26 -> Pt(Rat(i - 12, 2), I(1))
      [] i \in 27 .. 30 -> IPt(4, i - 25)
      [] i \in 31 .. 35 -> Pt(Rat(i - 25, 2), Rat(11, 2))
      [] i \in 36 .. 41 -> LeftEye[i - 35]
      [] i \in 42 .. 47 -> Pt(RAdd(LeftEye[i - 41].x, I(3)), LeftEye[i - 41].y)
      [] i \in 48 .. 59 -> Mouth[i - 47]
      [] i \in 60 .. 67 -> Pt(Rat(i - 48, 4), Rat(13, 2))
      [] OTHER -> IPt(4, 4)

\* the first n landmarks, moved right by shift pixels
Landmarks(n, shift) ==
    [positions |-> [k \in 1 .. n |->
                        Pt(RAdd(Landmark(k - 1).x, I(shift)), Landmark(k - 1).y)],
     detected |-> TRUE]

\* landmark arrays handed to the exported functions: of the expected length,
\* shorter (empty, jaw and nose only) and longer
LandmarkSets ==
    {Landmarks(n, shift) : n \in {0, 34, 68, 70}, shift \in {0, 1}}

\* what the detector resolves to
DetectorResults == {Landmarks(68, shift) : shift \in {0, 1}} \cup {NoLandmarks}

Region(x, y, w, h) == [x |-> I(x), y |-> I(y), width |-> I(w), height |-> I(h)]

\* face regions handed to the exported functions: square, oblong, as wide as
\* the wide body image, reaching beyond the canvas, of width 0, of height 0 and
\* of negative size
FaceRegions ==
    {Region(1, 1, BodySize - 2, BodySize - 2), Region(1, 3, BodySize - 2, 6),
     Region(1, 3, WideBodyWidth - 2, 6),
     Region(BodySize - 5, BodySize - 5, 8, 8),
     Region(2, 2, 0, 8), Region(2, 2, 8, 0), Region(10, 2, -8, 8), Region(2, 10, 8, -8)}

InitCompose ==
    /\ wpc = "idle" /\ srcCanvas = NoImage /\ dstCanvas = NoImage
    /\ dstBefore = NoImage /\ srcBefore = NoImage
    /\ srcTriangle = NoTriangle /\ dstTriangle = NoTriangle /\ fills = {}
    /\ cpc = "idle"
    /\ entry = "none"
    /\ userFace = NoImage
    /\ characterBodyImg = NoImage
    /\ userLandmarks = NoLandmarks
    /\ characterFaceRegion = Region(0, 0, 0, 0)
    /\ outputCanvas = NoImage
    /\ morphCanvas = NoImage
    /\ characterPoints = <<>>
    /\ triangles = <<>>
    /\ triIdx = 0
    /\ warped = {}
    /\ calls = <<>>
    /\ outcome = "none"
    /\ displayCanvas = NoImage
    /\ compositeImage = <<>>
    /\ allPoints = <<>>
    /\ srcRect = NoCrop
    /\ remembered = {}
    /\ PageInit /\ CamInit /\ DispInit /\ FnInit /\ MatchInit

NextCompose ==
    \/ /\ cpc = "idle"
       /\ \E face \in FaceImages, body \in BodyImages, landmarks \in LandmarkSets,
             region \in FaceRegions :
                \/ MorphBegin(face, body, landmarks, region)
                \/ ExtractCall(face, body, landmarks, region)
    \/ MorphWarpNext
    \/ MorphBlend
    \/ \E face \in FaceImages, body \in BodyImages : CompositeImagesStart(face, body)
    \/ CompositeLoaded
    \/ CompositeLoadError
    \/ \E landmarks \in DetectorResults : DetectFaceLandmarks(landmarks)
    \/ CompositeOverlay
    \/ CompositeExtract

SpecCompose == InitCompose /\ [][NextCompose]_vars

-----------------------------------------------------------------------------
\* extractAndPositionFace called on face images of several sizes, with the
\* face at several places in the image

\* the 68 landmarks moved right by dx and down by dy pixels
LandmarksAt(dx, dy) ==
    [positions |-> [k \in 1 .. 68 |->
                        Pt(RAdd(Landmark(k - 1).x, I(dx)), RAdd(Landmark(k - 1).y, I(dy)))],
     detected |-> TRUE]

CropLandmarkSets == {LandmarksAt(dx, dy) : dx \in 0 .. 3, dy \in 0 .. 3}

\* widths and heights of the face image: the landmark box fills the smallest
\* and lies well inside the largest
CropSizes == {FaceSize, FaceSize + 2, FaceSize + 4, FaceSize + 7}

CropFaceImages == {Image("face", w, h, {}, {}) : w \in CropSizes, h \in CropSizes}

NextCrop ==
    /\ cpc = "idle"
    /\ \E face \in CropFaceImages, body \in CallBodyImages,
          landmarks \in CropLandmarkSets :
            ExtractCall(face, body, landmarks, Region(1, 1, BodySize - 2, BodySize - 2))

SpecCrop == InitCompose /\ [][NextCrop]_vars

-----------------------------------------------------------------------------
\* The rescaling of the landmarks into the face region (the start of
\* morphFaceToCharacter) on its own

\* the 68 landmarks with every x replaced by 4: a landmark box of width 0
FlatLandmarks ==
    [positions |-> [k \in 1 .. 68 |-> Pt(I(4), Landmark(k - 1).y)], detected |-> TRUE]

RescaleLandmarkSets == LandmarkSets \cup CropLandmarkSets \cup {FlatLandmarks}

\* userPoints, userBounds and characterPoints are computed
RescaleCall(landmarks, region) ==
    /\ cpc = "idle"
    /\ cpc' = "done"
    /\ entry' = "characterPoints"
    /\ userLandmarks' = landmarks
    /\ characterFaceRegion' = region
    /\ characterPoints' = CharacterPoints(landmarks.positions, region)
    /\ UNCHANGED <<userFace, characterBodyImg, outputCanvas, morphCanvas, triangles,
                   triIdx, warped, calls, outcome, displayCanvas, compositeImage,
                   allPoints, srcRect, remembered, appVars, warpVars>>

NextRescale ==
    /\ cpc = "idle"
    /\ \E landmarks \in RescaleLandmarkSets, region \in FaceRegions :
            RescaleCall(landmarks, region)

SpecRescale == InitCompose /\ [][NextRescale]_vars

-----------------------------------------------------------------------------
\* The Index page with ChiefGuestSetup: photo uploads, captures and reset

\* how many of the predefined chief guests take part
NumGuests == 2
\* how many of the characters, in the order of the list, can be drawn
NumCharacters == 3
\* how many handleCapture calls can be awaiting their match at once
MaxCaptures == 2

\* the ids of the characters list, in its order
characters ==
    <<"hulk", "ironman", "captain-america", "spiderman", "thanos", "doctor-strange",
      "she-hulk", "vision", "captain-marvel", "wolverine", "gamora", "nick-fury">>

predefinedChiefGuests ==
    <<[name |-> "Chief Guest 1", characterId |-> "ironman"],
      [name |-> "Chief Guest 2", characterId |-> "captain-america"],
      [name |-> "Chief Guest 3", characterId |-> "hulk"]>>

Characters == {characters[i] : i \in 1 .. IMin(NumCharacters, Len(characters))}
Guests ==
    {predefinedChiefGuests[i].name : i \in 1 .. IMin(NumGuests, Len(predefinedChiefGuests))}

\* predefinedChiefGuests.find(...) then characters.find(...) || null
getChiefGuestCharacter(guestName) ==
    LET found == {i \in DOMAIN predefinedChiefGuests :
                        predefinedChiefGuests[i].name = guestName}
    IN  IF found = {} THEN "null"
        ELSE LET guest == predefinedChiefGuests[CHOOSE i \in found : \A j \in found : i <= j]
             IN  IF \E k \in DOMAIN characters : characters[k] = guest.characterId
                 THEN guest.characterId ELSE "null"

\* new Map(m) followed by set(k, v) / delete(k)
MapSet(m, k, v) == [x \in DOMAIN m \cup {k} |-> IF x = k THEN v ELSE m[x]]
MapDelete(m, k) == [x \in DOMAIN m \ {k} |-> m[x]]

\* the data URL FileReader produces for the guest's file, and the descriptor
\* face-api extracts from a photo
PhotoUrl(guestName) == <<"photo", guestName>>
Descriptor(photoUrl) == <<"descriptor", photoUrl>>

InFlight(m, k) == k \in DOMAIN m

\* loadFaceRecognitionModels() resolved: setModelsLoaded(true)
ModelsLoaded ==
    /\ ~modelsLoaded
    /\ modelsLoaded' = TRUE
    /\ UNCHANGED <<capturedFace, selectedCharacter, recognizedGuest, guestPhotos,
                   faceDescriptors, uploadedPhotos, uploads, captures, removed,
                   warpVars, compVars, camVars, dispVars, fnVars, matchVars>>

\* handlePhotoUpload(guestName, event): an unusable file returns early, an
\* image starts FileReader, whose onload keeps the state of this render
handlePhotoUpload(guestName, file) ==
    /\ capturedFace = ""
    /\ ~InFlight(uploads, guestName)
    /\ IF file = "image"
       THEN /\ uploads' = MapSet(uploads, guestName,
                            [pc |-> "reading", photoUrl |-> PhotoUrl(guestName),
                             uploadedPhotos |-> uploadedPhotos,
                             guestPhotos |-> guestPhotos,
                             faceDescriptors |-> faceDescriptors,
                             modelsLoaded |-> modelsLoaded, mounted |-> TRUE])
            /\ removed' = removed \ {guestName}
       ELSE UNCHANGED <<uploads, removed>>
    /\ UNCHANGED <<capturedFace, selectedCharacter, recognizedGuest, guestPhotos,
                   faceDescriptors, modelsLoaded, uploadedPhotos, captures,
                   warpVars, compVars, camVars, dispVars, fnVars, matchVars>>

\* reader.onload: setUploadedPhotos, then handleGuestPhotoUpload up to its
\* first await (or its return when the models were not loaded)
ReaderOnload(guestName) ==
    /\ InFlight(uploads, guestName)
    /\ uploads[guestName].pc = "reading"
    /\ LET u == uploads[guestName]
       IN  /\ uploadedPhotos' = IF u.mounted
                                THEN MapSet(u.uploadedPhotos, guestName, u.photoUrl)
                                ELSE uploadedPhotos
           /\ guestPhotos' = MapSet(u.guestPhotos, guestName, u.photoUrl)
           /\ uploads' = IF u.modelsLoaded
                         THEN [uploads EXCEPT ![guestName].pc = "loading"]
                         ELSE MapDelete(uploads, guestName)
    /\ UNCHANGED <<capturedFace, selectedCharacter, recognizedGuest, faceDescriptors,
                   modelsLoaded, captures, removed, warpVars, compVars, camVars, dispVars, fnVars, matchVars>>

\* img.onload / img.onerror of handleGuestPhotoUpload: the rejection is not caught
UploadImageSettled(guestName, loaded) ==
    /\ InFlight(uploads, guestName)
    /\ uploads[guestName].pc = "loading"
    /\ uploads' = IF loaded THEN [uploads EXCEPT ![guestName].pc = "extracting"]
                  ELSE MapDelete(uploads, guestName)
    /\ UNCHANGED <<capturedFace, selectedCharacter, recognizedGuest, guestPhotos,
                   faceDescriptors, modelsLoaded, uploadedPhotos, captures,
                   removed, warpVars, compVars, camVars, dispVars, fnVars, matchVars>>

\* await extractFaceDescriptor(img) resolved to a descriptor or to null
UploadExtracted(guestName, detected) ==
    /\ InFlight(uploads, guestName)
    /\ uploads[guestName].pc = "extracting"
    /\ LET u == uploads[guestName]
       IN  faceDescriptors' = IF detected
                              THEN MapSet(u.faceDescriptors, guestName,
                                          Descriptor(u.photoUrl))
                              ELSE faceDescriptors
    /\ uploads' = MapDelete(uploads, guestName)
    /\ UNCHANGED <<capturedFace, selectedCharacter, recognizedGuest, guestPhotos,
                   modelsLoaded, uploadedPhotos, captures, removed,
                   warpVars, compVars, camVars, dispVars, fnVars, matchVars>>

removePhoto(guestName) ==
    /\ capturedFace = ""
    /\ guestName \in DOMAIN uploadedPhotos
    /\ uploadedPhotos' = MapDelete(uploadedPhotos, guestName)
    /\ removed' = removed \cup {guestName}
    /\ UNCHANGED <<capturedFace, selectedCharacter, recognizedGuest, guestPhotos,
                   faceDescriptors, modelsLoaded, uploads, captures,
                   warpVars, compVars, camVars, dispVars, fnVars, matchVars>>

\* handleCapture(imageData) up to await matchFaceToReferences, or to its end
\* with the random character when nothing is to be matched; the page then
\* shows CharacterDisplay, so ChiefGuestSetup and its state are unmounted
handleCapture(slot, character) ==
    /\ capturedFace = ""
    /\ ~InFlight(captures, slot)
    /\ capturedFace' = "image"
    /\ recognizedGuest' = "null"
    /\ uploadedPhotos' = EmptyMap
    /\ uploads' = [g \in DOMAIN uploads |-> [uploads[g] EXCEPT !.mounted = FALSE]]
    /\ IF modelsLoaded /\ DOMAIN faceDescriptors # {}
       THEN /\ captures' = MapSet(captures, slot,
                                  [pc |-> "matching", refs |-> faceDescriptors,
                                   removed |-> removed])
            /\ UNCHANGED selectedCharacter
       ELSE /\ selectedCharacter' = character
            /\ UNCHANGED captures
    /\ UNCHANGED <<guestPhotos, faceDescriptors, modelsLoaded, removed,
                   warpVars, compVars, camVars, dispVars, fnVars, matchVars>>

\* matchFaceToReferences settled: a match naming one of the references, null,
\* or a rejection that is caught; the rest of handleCapture
CaptureMatched(slot, match, character) ==
    /\ InFlight(captures, slot)
    /\ match \in DOMAIN captures[slot].refs \cup {"null", "rejected"}
    /\ IF match \in DOMAIN captures[slot].refs /\ getChiefGuestCharacter(match) # "null"
       THEN /\ selectedCharacter' = getChiefGuestCharacter(match)
            /\ recognizedGuest' = match
       ELSE /\ selectedCharacter' = character
            /\ UNCHANGED recognizedGuest
    /\ captures' = MapDelete(captures, slot)
    /\ UNCHANGED <<capturedFace, guestPhotos, faceDescriptors, modelsLoaded,
                   uploadedPhotos, uploads, removed, warpVars, compVars, camVars, dispVars, fnVars, matchVars>>

handleReset ==
    /\ capturedFace # ""
    /\ capturedFace' = ""
    /\ selectedCharacter' = "null"
    /\ recognizedGuest' = "null"
    /\ UNCHANGED <<guestPhotos, faceDescriptors, modelsLoaded, uploadedPhotos, uploads,
                   captures, removed, warpVars, compVars, camVars, dispVars, fnVars, matchVars>>

Files == {"none", "text", "large", "image"}

\* the chief guest setup alone: uploads for several guests overlap
NextUploads ==
    \/ ModelsLoaded
    \/ \E guestName \in Guests, file \in Files : handlePhotoUpload(guestName, file)
    \/ \E guestName \in Guests : ReaderOnload(guestName)
    \/ \E guestName \in Guests, loaded \in BOOLEAN : UploadImageSettled(guestName, loaded)
    \/ \E guestName \in Guests, detected \in BOOLEAN : UploadExtracted(guestName, detected)
    \/ \E guestName \in Guests : removePhoto(guestName)

SpecUploads == InitCompose /\ [][NextUploads]_vars

\* the whole page, with the photos uploaded one after the other
NextPage ==
    \/ ModelsLoaded
    \/ /\ uploads = EmptyMap
       /\ \E guestName \in Guests, file \in Files : handlePhotoUpload(guestName, file)
    \/ \E guestName \in Guests : ReaderOnload(guestName)
    \/ \E guestName \in Guests, loaded \in BOOLEAN : UploadImageSettled(guestName, loaded)
    \/ \E guestName \in Guests, detected \in BOOLEAN : UploadExtracted(guestName, detected)
    \/ \E guestName \in Guests : removePhoto(guestName)
    \/ \E slot \in 1 .. MaxCaptures, character \in Characters : handleCapture(slot, character)
    \/ \E slot \in 1 .. MaxCaptures, match \in Guests \cup {"null", "rejected"},
          character \in Characters : CaptureMatched(slot, match, character)
    \/ handleReset

SpecPage == InitCompose /\ [][NextPage]_vars

-----------------------------------------------------------------------------
\* WebcamCapture: the camera stream over toggles, unmounts and getUserMedia

\* how many getUserMedia calls are made at most
MaxStreams == 4

\* the tracks after stopWebcam() run by a closure whose stream is s
StopTracks(tr, s) == IF s = NoStream THEN tr ELSE [tr EXCEPT ![s] = "stopped"]

Started == Len(tracks) + pending + orphaned

\* onToggle: isActive flips and the component re-renders with its current
\* stream state; the cleanup of the effect that ran last runs stopWebcam with
\* the stream that effect saw, then the new effect starts or stops the webcam
Toggle ==
    /\ camMounted
    /\ isActive \/ Started < MaxStreams
    /\ isActive' = ~isActive
    /\ effectStream' = stream
    /\ IF isActive'
       THEN /\ tracks' = StopTracks(tracks, effectStream)
            /\ stream' = IF effectStream # NoStream THEN NoStream ELSE stream
            /\ pending' = pending + 1
       ELSE /\ tracks' = StopTracks(StopTracks(tracks, effectStream), stream)
            /\ stream' = NoStream
            /\ UNCHANGED pending
    /\ UNCHANGED <<camMounted, orphaned, warpVars, compVars, pageVars, dispVars, fnVars, matchVars>>

\* getUserMedia of the mounted instance settled: a stream is kept only if the
\* video element is there (isActive), a rejection is caught
GetUserMediaSettled(resolved) ==
    /\ pending > 0
    /\ pending' = pending - 1
    /\ IF resolved
       THEN /\ tracks' = Append(tracks, "live")
            /\ stream' = IF isActive THEN Len(tracks) + 1 ELSE stream
       ELSE UNCHANGED <<tracks, stream>>
    /\ UNCHANGED <<isActive, camMounted, effectStream, orphaned,
                   warpVars, compVars, pageVars, dispVars, fnVars, matchVars>>

\* getUserMedia of an unmounted instance settled: videoRef.current is null
OrphanSettled(resolved) ==
    /\ orphaned > 0
    /\ orphaned' = orphaned - 1
    /\ tracks' = IF resolved THEN Append(tracks, "live") ELSE tracks
    /\ UNCHANGED <<isActive, camMounted, stream, effectStream, pending,
                   warpVars, compVars, pageVars, dispVars, fnVars, matchVars>>

\* a capture makes the page show CharacterDisplay: the component unmounts and
\* the cleanup of the effect that ran last runs
Unmount ==
    /\ camMounted /\ isActive
    /\ camMounted' = FALSE
    /\ tracks' = StopTracks(tracks, effectStream)
    /\ stream' = NoStream
    /\ effectStream' = NoStream
    /\ orphaned' = orphaned + pending
    /\ pending' = 0
    /\ UNCHANGED <<isActive, warpVars, compVars, pageVars, dispVars, fnVars, matchVars>>

\* handleReset shows the capture tab again: a new instance mounts with
\* isActive as the page left it, and its effect runs
Remount ==
    /\ ~camMounted
    /\ ~isActive \/ Started < MaxStreams
    /\ camMounted' = TRUE
    /\ pending' = IF isActive THEN 1 ELSE 0
    /\ UNCHANGED <<isActive, stream, effectStream, orphaned, tracks,
                   warpVars, compVars, pageVars, dispVars, fnVars, matchVars>>

NextWebcam ==
    \/ Toggle
    \/ \E resolved \in BOOLEAN : GetUserMediaSettled(resolved)
    \/ \E resolved \in BOOLEAN : OrphanSettled(resolved)
    \/ Unmount
    \/ Remount

SpecWebcam == InitCompose /\ [][NextWebcam]_vars

-----------------------------------------------------------------------------
\* CharacterDisplay: compositeImages runs started by changing props

\* how many compositeImages runs are started at most
MaxRuns == 3

\* the data URL a run for this character and face image stores
CompositeOf(pair) == [character |-> pair.character, faceImage |-> pair.faceImage]

\* a render with a new character or faceImage: the effect calls
\* compositeImages(), which returns at once without a character
PropsChange(character, faceImage) ==
    /\ Len(runs) < MaxRuns
    /\ props # [character |-> character, faceImage |-> faceImage]
    /\ props' = [character |-> character, faceImage |-> faceImage]
    /\ runs' = Append(runs, [pair |-> props',
                             pc |-> IF character = "null" THEN "returned"
                                    ELSE "loading"])
    /\ UNCHANGED <<compVars, warpVars, pageVars, camVars, fnVars, matchVars>>

\* the two images of a run loaded, or one failed and the run ended in catch
RunLoaded(i, loaded) ==
    /\ i \in DOMAIN runs
    /\ runs[i].pc = "loading"
    /\ runs' = [runs EXCEPT ![i].pc = IF loaded THEN "detect" ELSE "caught"]
    /\ UNCHANGED <<props, compVars, warpVars, pageVars, camVars, fnVars, matchVars>>

\* the rest of a run: landmarks detected or not, the composite drawn on the
\* component's canvas and stored with setCompositeImage
RunComposed(i) ==
    /\ i \in DOMAIN runs
    /\ runs[i].pc = "detect"
    /\ runs' = [runs EXCEPT ![i].pc = "done"]
    /\ displayCanvas' = CompositeOf(runs[i].pair)
    /\ compositeImage' = <<CompositeOf(runs[i].pair)>>
    /\ UNCHANGED <<props, cpc, entry, userFace, characterBodyImg, userLandmarks,
                   characterFaceRegion, outputCanvas, morphCanvas, characterPoints,
                   triangles, triIdx, warped, calls, outcome, allPoints, srcRect,
                   remembered, warpVars, pageVars, camVars, fnVars, matchVars>>

NextDisplay ==
    \/ \E character \in Characters \cup {"null"}, faceImage \in {"image 1", "image 2"} :
            PropsChange(character, faceImage)
    \/ \E i \in 1 .. MaxRuns, loaded \in BOOLEAN : RunLoaded(i, loaded)
    \/ \E i \in 1 .. MaxRuns : RunComposed(i)

SpecDisplay == InitCompose /\ [][NextDisplay]_vars

-----------------------------------------------------------------------------
\* The transform-character function: submit, poll, fetch

maxAttempts == 30

\* the catch block's response and the two others
ErrorResponse == [status |-> 500, success |-> "false"]
SuccessResponse == [status |-> 200, success |-> "true"]
PreflightResponse == [status |-> 200, success |-> "absent"]

\* a loop that never gives up
LoopForever(n) == TRUE

\* while (attempts < maxAttempts)
LoopContinues(n) == n < maxAttempts

\* a reply of the task API: the fetch is rejected, or resolves with ok or
\* not, a code and a task status
Replies ==
    [settled : {"ok", "not ok", "rejected"}, code : {"000", "001"}, status : 0 .. 3]

\* OPTIONS is answered at once; otherwise the body is parsed and the key read
\* (either may throw), then the task is submitted
Request(method, usable) ==
    /\ fpc = "request"
    /\ IF method = "OPTIONS"
       THEN fpc' = "responded" /\ response' = PreflightResponse
       ELSE IF usable
       THEN fpc' = "submit" /\ UNCHANGED response
       ELSE fpc' = "responded" /\ response' = ErrorResponse
    /\ UNCHANGED <<attempts, taskStatus, polls, observed, imageFetched,
                   warpVars, compVars, pageVars, camVars, dispVars, matchVars>>

\* the submit fetch settled
Submitted(reply) ==
    /\ fpc = "submit"
    /\ IF reply.settled = "ok" /\ reply.code = "000"
       THEN fpc' = "poll" /\ UNCHANGED response
       ELSE fpc' = "responded" /\ response' = ErrorResponse
    /\ UNCHANGED <<attempts, taskStatus, polls, observed, imageFetched,
                   warpVars, compVars, pageVars, camVars, dispVars, matchVars>>

\* one turn of the loop: the one-second wait, the status fetch and what
\* follows it up to the next await
Poll(reply) ==
    /\ fpc = "poll"
    /\ polls' = polls + 1
    /\ observed' = observed \cup {reply}
    /\ IF reply.settled # "ok" \/ reply.code # "000"
       THEN /\ fpc' = "responded" /\ response' = ErrorResponse
            /\ UNCHANGED <<attempts, taskStatus>>
       ELSE /\ taskStatus' = reply.status
            /\ IF reply.status = 1
               THEN fpc' = "fetch" /\ UNCHANGED <<attempts, response>>
               ELSE IF reply.status = 2
               THEN fpc' = "responded" /\ response' = ErrorResponse
                    /\ UNCHANGED attempts
               ELSE /\ attempts' = attempts + 1
                    /\ IF LoopContinues(attempts')
                       THEN fpc' = "poll" /\ UNCHANGED response
                       ELSE fpc' = "responded" /\ response' = ErrorResponse
    /\ UNCHANGED <<imageFetched, warpVars, compVars, pageVars, camVars, dispVars, matchVars>>

\* the fetch of the result image settled
Fetched(settled) ==
    /\ fpc = "fetch"
    /\ fpc' = "responded"
    /\ imageFetched' = (settled = "ok")
    /\ response' = IF settled = "ok" THEN SuccessResponse ELSE ErrorResponse
    /\ UNCHANGED <<attempts, taskStatus, polls, observed,
                   warpVars, compVars, pageVars, camVars, dispVars, matchVars>>

NextTransform ==
    \/ \E method \in {"OPTIONS", "POST"}, usable \in BOOLEAN : Request(method, usable)
    \/ \E reply \in Replies : Submitted(reply)
    \/ \E reply \in Replies : Poll(reply)
    \/ \E settled \in {"ok", "not ok", "rejected"} : Fetched(settled)

\* every awaited fetch and timer settles
SpecTransformFair == InitCompose /\ [][NextTransform]_vars /\ WF_vars(NextTransform)

-----------------------------------------------------------------------------
\* matchFaceToReferences called on its own

\* 0.6
MATCH_THRESHOLD == <<3, 5>>

\* distance < MATCH_THRESHOLD, with the threshold itself counted in
WithinThreshold(distance) == RLe(distance, MATCH_THRESHOLD)

\* distance < MATCH_THRESHOLD
BelowThreshold(distance) == RLt(distance, MATCH_THRESHOLD)

\* bestMatch after the loop has visited entries i .. Len(entries)
RECURSIVE BestMatch(_, _, _)
BestMatch(entries, i, bestMatch) ==
    IF i > Len(entries) THEN bestMatch
    ELSE LET e == entries[i]
         IN  IF BelowThreshold(e.distance)
                /\ (bestMatch = <<>> \/ RLt(e.distance, bestMatch[1].distance))
             THEN BestMatch(entries, i + 1, <<e>>)
             ELSE BestMatch(entries, i + 1, bestMatch)

\* Math.max(0, Math.min(100, (1 - distance) * 100))
Confidence(distance) ==
    RMax(I(0), RMin(I(100), RMul(RSub(I(1), distance), I(100))))

\* what the function resolves to once the image has loaded
matchFaceToReferences(detected, entries) ==
    IF ~detected THEN NoMatch
    ELSE LET bestMatch == BestMatch(entries, 1, <<>>)
         IN  IF bestMatch # <<>>
             THEN [kind |-> "match", name |-> bestMatch[1].name,
                   confidence |-> Confidence(bestMatch[1].distance)]
             ELSE NoMatch

\* one call: the image loads or the promise rejects, a face is detected or not
MatchCall(loaded, detected, entries) ==
    /\ mpc = "idle"
    /\ mpc' = "done"
    /\ capturedDescriptor' = (loaded /\ detected)
    /\ referenceDescriptors' = entries
    /\ matchResult' = IF loaded THEN matchFaceToReferences(detected, entries)
                      ELSE [NoMatch EXCEPT !.kind = "rejected"]
    /\ UNCHANGED <<warpVars, compVars, pageVars, camVars, dispVars, fnVars>>

\* reference maps of up to NumGuests entries, in any insertion order, with
\* euclidean distances from 0, around the threshold and above 1
ReferenceMaps ==
    LET distances == {Rat(0, 1), Rat(3, 10), Rat(59, 100), Rat(3, 5), Rat(61, 100),
                      Rat(6, 5)}
    IN  {entries \in UNION {[1 .. n -> [name : Guests, distance : distances]] :
                                n \in 0 .. NumGuests} :
            \A i, j \in DOMAIN entries : i # j => entries[i].name # entries[j].name}

NextMatch ==
    /\ mpc = "idle"
    /\ \E loaded \in BOOLEAN, detected \in BOOLEAN, entries \in ReferenceMaps :
            MatchCall(loaded, detected, entries)

SpecMatch == InitCompose /\ [][NextMatch]_vars

-----------------------------------------------------------------------------
\* getDelaunayTriangles called on its own

\* one call getDelaunayTriangles(points, width, height), from entry to return
GetDelaunayTrianglesCall(points, width, height) ==
    /\ cpc = "idle"
    /\ cpc' = "done"
    /\ entry' = "getDelaunayTriangles"
    /\ userLandmarks' = [positions |-> points, detected |-> TRUE]
    /\ userFace' = NewCanvas(width, height)
    /\ allPoints' = AllPoints(points, width, height)
    /\ triangles' = getDelaunayTriangles(points, width, height)
    /\ calls' = <<"getDelaunayTriangles">>
    /\ outcome' = "returned"
    /\ UNCHANGED <<characterBodyImg, characterFaceRegion, outputCanvas, morphCanvas,
                   characterPoints, triIdx, warped, displayCanvas, compositeImage,
                   srcRect, remembered, appVars, warpVars>>

\* point arrays of 0, 34, 68 and 70 points, each at two positions
MeshPointSets == {l.positions : l \in LandmarkSets}

\* canvas widths and heights
MeshSizes == {1, FaceSize - 1, FaceSize, FaceSize + 1, FaceSize + 2}

NextMesh ==
    /\ cpc = "idle"
    /\ \E points \in MeshPointSets, width \in MeshSizes, height \in MeshSizes :
            GetDelaunayTrianglesCall(points, width, height)

SpecMesh == InitCompose /\ [][NextMesh]_vars

-----------------------------------------------------------------------------
\* Calls of the two exported functions one after the other

\* the finished call as its caller sees it: the arguments and what came back
\* (others: whether a call with other arguments has been made since)
FinishedCall ==
    [entry |-> entry, face |-> userFace, body |-> characterBodyImg,
     landmarks |-> userLandmarks, region |-> characterFaceRegion,
     outcome |-> outcome, output |-> outputCanvas, others |-> FALSE]

\* the finished call c had the arguments of the call that has just finished
SameArguments(c) ==
    /\ c.entry = entry
    /\ c.face = userFace
    /\ c.body = characterBodyImg
    /\ c.landmarks = userLandmarks
    /\ c.region = characterFaceRegion

\* "return outputCanvas": control is back at the caller, which may keep the
\* result to compare later ones with; the locals of the call are left as they
\* are until another call sets them
CallReturn ==
    /\ cpc = "done"
    /\ cpc' = "idle"
    /\ remembered' \in {{[c EXCEPT !.others = @ \/ ~SameArguments(c)] : c \in remembered},
                         {FinishedCall}}
    /\ UNCHANGED <<entry, userFace, characterBodyImg, userLandmarks,
                   characterFaceRegion, outputCanvas, morphCanvas, characterPoints,
                   triangles, triIdx, warped, calls, outcome, displayCanvas,
                   compositeImage, allPoints, srcRect, appVars, warpVars>>

CallLandmarkSets == {Landmarks(68, shift) : shift \in {0, 1}}

CallRegions == {Region(1, 1, BodySize - 2, BodySize - 2), Region(1, 3, BodySize - 2, 6)}

NextCalls ==
    \/ /\ cpc = "idle"
       /\ \E face \in FaceImages, body \in CallBodyImages,
             landmarks \in CallLandmarkSets, region \in CallRegions :
                \/ MorphBegin(face, body, landmarks, region)
                \/ ExtractCall(face, body, landmarks, region)
    \/ MorphWarpNext
    \/ MorphBlend
    \/ CallReturn

SpecCalls == InitCompose /\ [][NextCalls]_vars

-----------------------------------------------------------------------------
\* Geometry the properties are stated with, independent of the loop body above

\* (b - a) x (c - a): twice the signed area of the triangle a, b, c
Cross(a, b, c) ==
    RSub(RMul(RSub(b.x, a.x), RSub(c.y, a.y)), RMul(RSub(b.y, a.y), RSub(c.x, a.x)))

Collinear(t) == Cross(t[1], t[2], t[3]) = I(0)

\* the barycentric weights of the point pt with respect to t[1], t[2], t[3],
\* in that order (t not collinear)
Weights(t, pt) ==
    LET d == Cross(t[1], t[2], t[3])
    IN  <<RDiv(Cross(pt, t[2], t[3]), d), RDiv(Cross(pt, t[3], t[1]), d),
          RDiv(Cross(pt, t[1], t[2]), d)>>

AllNonNegative(w) == \A i \in 1 .. 3 : RLe(I(0), w[i])

\* w[1]*q[1] + w[2]*q[2] + w[3]*q[3]
Combine(w, q) ==
    Pt(RAdd(RAdd(RMul(w[1], q[1].x), RMul(w[2], q[2].x)), RMul(w[3], q[3].x)),
       RAdd(RAdd(RMul(w[1], q[1].y), RMul(w[2], q[2].y)), RMul(w[3], q[3].y)))

PixelPt(p) == IPt(p[1], p[2])

Pixels(c) == DOMAIN c.data

\* the pixels of the call just made that the loop visited and classified inside,
\* with the source coordinate each was mapped to
InsideMapped ==
    IF Collinear(dstTriangle) THEN {}
    ELSE {[p |-> p,
           s |-> MapToSource(Barycentric(dstTriangle, Det(dstTriangle), p[1], p[2]),
                             srcTriangle)] :
            p \in {pp \in LoopPixels(dstBefore, dstTriangle) :
                     InsideTriangle(Barycentric(dstTriangle, Det(dstTriangle),
                                                pp[1], pp[2]))}}

\* 0 <= s.x < width - 1 and 0 <= s.y < height - 1
InHalfOpenRange(s, width, height) ==
    /\ ~RLt(s.x, I(0)) /\ RLt(s.x, I(width - 1))
    /\ ~RLt(s.y, I(0)) /\ RLt(s.y, I(height - 1))

\* k = floor(r): k <= r < k + 1
IsFloor(k, r) == RLe(I(k), r) /\ RLt(r, I(k + 1))

-----------------------------------------------------------------------------
\* C1: every pixel warpTriangle writes samples the source at
\* w0*q1 + w1*q2 + w2*q3, where (w0, w1, w2) are the barycentric weights of the
\* pixel with respect to p1, p2, p3 in that order (so a pixel at p1 samples q1).
C1_VertexCorrespondence ==
    wpc = "done" =>
        \A f \in fills :
            f.s = Combine(Weights(dstTriangle, PixelPt(f.p)), srcTriangle)

\* what the loop body computes instead: its w0, w1, w2 are the weights of
\* p2, p3, p1, so a pixel at p1 samples q3, at p2 q1 and at p3 q2
C1_RotatedCorrespondence ==
    wpc = "done" =>
        \A f \in fills :
            LET w == Weights(dstTriangle, PixelPt(f.p))
            IN  f.s = Combine(<<w[2], w[3], w[1]>>, srcTriangle)

\* a written pixel that sits on the vertex p1 of a proper triangle whose
\* source vertices are three different points
C1_Witness ==
    /\ wpc = "done"
    /\ ~Collinear(srcTriangle)
    /\ \E f \in fills : PixelPt(f.p) = dstTriangle[1]

\* C2: every pixel of the destination canvas whose three barycentric weights
\* are >= 0 (edges and vertices included) is visited and classified inside, and
\* is written whenever its mapped source coordinate is in range.
C2_BoundaryInside ==
    (wpc = "done" /\ ~Collinear(dstTriangle)) =>
        \A p \in Pixels(dstBefore) :
            AllNonNegative(Weights(dstTriangle, PixelPt(p))) =>
                /\ \E m \in InsideMapped : m.p = p
                /\ LET s == MapToSource(Barycentric(dstTriangle, Det(dstTriangle),
                                                    p[1], p[2]), srcTriangle)
                   IN  InHalfOpenRange(s, srcBefore.width, srcBefore.height)
                            => \E f \in fills : f.p = p

C4_DegenerateSkipped ==
    (wpc = "done" /\ Collinear(dstTriangle)) =>
        fills = {} /\ dstCanvas = dstBefore

\* three different collinear vertices whose bounding box covers pixels of the
\* canvas
C4_Witness ==
    /\ wpc = "done"
    /\ Collinear(dstTriangle)
    /\ Cardinality({dstTriangle[i] : i \in 1 .. 3}) = 3
    /\ LoopPixels(dstBefore, dstTriangle) # {}
    /\ dstCanvas = dstBefore

\* C5: the only destination pixels that change are pixels of the canvas that
\* lie in the triangle's bounding box, pass the in-triangle test and pass the
\* source-bounds test; fillRect is never called outside the canvas and the
\* source canvas is unchanged.
C5_Frame ==
    wpc = "done" =>
        /\ srcCanvas = srcBefore
        /\ Pixels(dstCanvas) = Pixels(dstBefore)
        /\ \A f \in fills : f.p \in Pixels(dstBefore)
        /\ \A p \in Pixels(dstBefore) :
                (dstCanvas.data[p] # dstBefore.data[p] \/ \E f \in fills : f.p = p) =>
                    /\ ~Collinear(dstTriangle)
                    /\ \E j \in 1 .. 3 : RLe(dstTriangle[j].x, I(p[1]))
                    /\ \E j \in 1 .. 3 : RLe(I(p[1]), dstTriangle[j].x)
                    /\ \E j \in 1 .. 3 : RLe(dstTriangle[j].y, I(p[2]))
                    /\ \E j \in 1 .. 3 : RLe(I(p[2]), dstTriangle[j].y)
                    /\ AllNonNegative(Weights(dstTriangle, PixelPt(p)))
                    /\ \E m \in InsideMapped :
                          /\ m.p = p
                          /\ InHalfOpenRange(m.s, srcBefore.width, srcBefore.height)

\* a triangle reaching beyond the canvas on both sides changed some pixels and
\* left others
C5_Witness ==
    /\ wpc = "done"
    /\ \E i \in 1 .. 3 : RLt(dstTriangle[i].x, I(0))
    /\ \E i \in 1 .. 3 : RLe(I(dstBefore.width), dstTriangle[i].x)
    /\ \E p \in Pixels(dstBefore) : dstCanvas.data[p] # dstBefore.data[p]
    /\ \E p \in Pixels(dstBefore) : dstCanvas.data[p] = dstBefore.data[p]

\* the closed triangle t and the rectangle [0, w] x [0, h] are separated by a
\* side of the rectangle or by the line through an edge of the triangle
FullyOutside(t, w, h) ==
    \/ \A i \in 1 .. 3 : RLt(t[i].x, I(0))
    \/ \A i \in 1 .. 3 : RLt(t[i].y, I(0))
    \/ \A i \in 1 .. 3 : RLe(I(w), t[i].x)
    \/ \A i \in 1 .. 3 : RLe(I(h), t[i].y)
    \/ /\ ~Collinear(t)
       /\ \E e \in {<<1, 2, 3>>, <<2, 3, 1>>, <<3, 1, 2>>} :
            \A k \in {IPt(0, 0), IPt(w, 0), IPt(0, h), IPt(w, h)} :
                RLt(RMul(Cross(t[e[1]], t[e[2]], k),
                         Cross(t[e[1]], t[e[2]], t[e[3]])), I(0))

\* C6: a destination triangle fully outside the destination canvas (on any
\* side, negative coordinates included) makes warpTriangle write nothing.
C6_OutsideNoWrites ==
    (wpc = "done" /\ FullyOutside(dstTriangle, dstBefore.width, dstBefore.height)) =>
        fills = {} /\ dstCanvas = dstBefore

\* a proper triangle with negative coordinates that misses the canvas although
\* its bounding box covers pixels of it
C6_Witness ==
    /\ wpc = "done"
    /\ ~Collinear(dstTriangle)
    /\ FullyOutside(dstTriangle, dstBefore.width, dstBefore.height)
    /\ \E i \in 1 .. 3 : RLt(dstTriangle[i].x, I(0))
    /\ LoopPixels(dstBefore, dstTriangle) # {}
    /\ dstCanvas = dstBefore

-----------------------------------------------------------------------------
\* Properties of the composite entry points

\* some ink of the user's face image is in pixel p of canvas
HasFaceInk(canvas, p) == \E k \in canvas.data[p].ink : k[1] = "face"

\* a face pixel was drawn at p of the returned canvas: the fallback drew it
\* there, or the mesh warp painted p on the scratch canvas that was then drawn
\* on the output (ink that only the blur smeared to p does not count)
FaceDrawnAt(p) ==
    /\ HasFaceInk(outputCanvas, p)
    /\ entry = "morphFaceToCharacter" => morphCanvas.data[p].a # 0

\* v clamped to [lo, hi]
Clamp(v, lo, hi) == RMax(lo, RMin(hi, v))

\* the square of pixel p, [p1, p1+1] x [p2, p2+1], has a point within the
\* circle of centre c and the given radius
TouchesCircle(p, c, radius) ==
    /\ RLt(I(0), radius)
    /\ RLe(Dist2(Pt(Clamp(c.x, I(p[1]), I(p[1] + 1)), Clamp(c.y, I(p[2]), I(p[2] + 1))),
                 c),
           RMul(radius, radius))

\* width > 0 and height > 0
PositiveRegion(region) == RLt(I(0), region.width) /\ RLt(I(0), region.height)

MeshReturned == entry = "morphFaceToCharacter" /\ cpc = "done"
FallbackReturned == entry = "extractAndPositionFace" /\ cpc = "done"

\* C8: in both modes no face pixel is drawn at a position outside the circle
\* centred at the centre of faceRegion with radius min(width, height) / 2.
C8_CircularClip ==
    /\ (MeshReturned \/ FallbackReturned)
    /\ outcome = "returned"
    /\ PositiveRegion(characterFaceRegion)
    =>
        \A p \in Pixels(outputCanvas) :
            FaceDrawnAt(p) =>
                TouchesCircle(p, RegionCentre(characterFaceRegion),
                              RegionRadius(characterFaceRegion))

\* the same for the fallback mode alone
C8_FallbackClip ==
    (FallbackReturned /\ outcome = "returned" /\ PositiveRegion(characterFaceRegion)) =>
        \A p \in Pixels(outputCanvas) :
            FaceDrawnAt(p) =>
                TouchesCircle(p, RegionCentre(characterFaceRegion),
                              RegionRadius(characterFaceRegion))

\* name is among the functions the call invoked
Invoked(name) == \E i \in DOMAIN calls : calls[i] = name

\* C7: compositeImages composes in mesh-warp mode (per-triangle warp of the
\* landmark mesh) when the detector supplies landmarks, and falls back to a
\* composite that still yields an image when it supplies none.
C7_ModeByLandmarks ==
    (entry = "compositeImages" /\ cpc = "done" /\ outcome = "returned") =>
        IF userLandmarks.detected
        THEN Invoked("morphFaceToCharacter") /\ Invoked("warpTriangle")
        ELSE /\ compositeImage # <<>>
             /\ \E p \in Pixels(displayCanvas) : HasFaceInk(displayCanvas, p)

\* the half of C7 the component does implement: without landmarks an image
\* with the face in it is still produced
C7_FallbackStillComposes ==
    (entry = "compositeImages" /\ cpc = "done" /\ outcome = "returned"
        /\ ~userLandmarks.detected) =>
            /\ compositeImage # <<>>
            /\ \E p \in Pixels(displayCanvas) : HasFaceInk(displayCanvas, p)

\* C9: mesh-warp mode given a landmark array whose length is not 68 fails with
\* an error instead of returning an image.
C9_FailFastOnLandmarkCount ==
    (MeshReturned /\ Len(userLandmarks.positions) # 68) => outcome = "threw"

\* C10: a face region of non-positive width or height makes the composite, in
\* either mode, fail with an error instead of returning an image.
C10_FailFastOnRegion ==
    ((MeshReturned \/ FallbackReturned) /\ ~PositiveRegion(characterFaceRegion)) =>
        outcome = "threw"

\* C11: the canvas returned by mesh-warp mode and by fallback mode has the
\* width and height of the character body image, never those of the face image.
C11_OutputDimensions ==
    ((MeshReturned \/ FallbackReturned) /\ outcome = "returned") =>
        /\ outputCanvas.width = characterBodyImg.width
        /\ outputCanvas.height = characterBodyImg.height
        /\ Pixels(outputCanvas) =
                (0 .. characterBodyImg.width - 1) \X (0 .. characterBodyImg.height - 1)

\* a mesh-warp call has returned for a body image that is not square and has
\* neither dimension of the face image
C11_Witness ==
    /\ MeshReturned /\ outcome = "returned"
    /\ characterBodyImg.width # characterBodyImg.height
    /\ userFace.width \notin {characterBodyImg.width, characterBodyImg.height}
    /\ userFace.height \notin {characterBodyImg.width, characterBodyImg.height}

\* C12: a composite call in either mode mutates none of its inputs: the face
\* image, the landmark set and the body image are as they were handed in, and
\* the caller's own canvas is not drawn on; the result is a canvas of its own.
C12_InputsUnchanged ==
    entry \in {"morphFaceToCharacter", "extractAndPositionFace"} =>
        /\ userFace \in FaceImages
        /\ characterBodyImg \in BodyImages
        /\ userLandmarks \in LandmarkSets
        /\ displayCanvas = NoImage

\* a mesh-warp call has returned a canvas that carries pixels of the face
C12_Witness ==
    /\ MeshReturned /\ outcome = "returned"
    /\ \E p \in Pixels(outputCanvas) : HasFaceInk(outputCanvas, p)
    /\ outputCanvas # characterBodyImg

\* the square of pixel p lies wholly outside the rectangle of region
OutsideRegion(p, region) ==
    \/ RLt(I(p[1] + 1), region.x)
    \/ RLt(RAdd(region.x, region.width), I(p[1]))
    \/ RLt(I(p[2] + 1), region.y)
    \/ RLt(RAdd(region.y, region.height), I(p[2]))

\* the square of pixel p lies wholly beyond the glow ring: farther from the
\* region centre than 1.2 * radius plus the blur of the glow
BeyondGlow(p, region) ==
    ~TouchesCircle(p, RegionCentre(region),
                   RAdd(RMul(Rat(12, 10), RegionRadius(region)), I(GlowBlurPx)))

\* C13: after a composite in either mode every output pixel outside faceRegion
\* and beyond the glow ring (radius 1.2r plus the blur margin) equals the pixel
\* of the body image.
C13_BackgroundUntouched ==
    /\ (MeshReturned \/ FallbackReturned)
    /\ outcome = "returned"
    /\ PositiveRegion(characterFaceRegion)
    =>
        \A p \in Pixels(outputCanvas) :
            (OutsideRegion(p, characterFaceRegion) /\ BeyondGlow(p, characterFaceRegion))
                => outputCanvas.data[p] = characterBodyImg.data[p]

\* the same for the fallback mode alone
C13_FallbackBackground ==
    (FallbackReturned /\ outcome = "returned" /\ PositiveRegion(characterFaceRegion)) =>
        \A p \in Pixels(outputCanvas) :
            (OutsideRegion(p, characterFaceRegion) /\ BeyondGlow(p, characterFaceRegion))
                => outputCanvas.data[p] = characterBodyImg.data[p]

\* C14: a call with the same face image, landmarks, body image and faceRegion
\* as an earlier call of the same function returns the same canvas, whatever
\* calls were made in between.
C14_SameInputsSameOutput ==
    cpc = "done" =>
        \A c \in remembered :
            SameArguments(c) => (c.output = outputCanvas /\ c.outcome = outcome)

\* a mesh-warp call has returned whose arguments are those of a remembered
\* call, with a call of other arguments made in between
C14_Witness ==
    /\ MeshReturned /\ outcome = "returned"
    /\ \E c \in remembered : SameArguments(c) /\ c.others

MeshBuilt == entry = "getDelaunayTriangles" /\ cpc = "done"

\* C15: for a given point count getDelaunayTriangles returns the same triangle
\* list in the same order, whatever the coordinates of the points and the
\* width and height are.
C15_MeshDeterministic ==
    MeshBuilt =>
        \A points \in MeshPointSets, width \in MeshSizes, height \in MeshSizes :
            Len(points) = Len(userLandmarks.positions) =>
                getDelaunayTriangles(points, width, height) = triangles

\* a mesh was built for 68 points on a canvas that is not square, and the model
\* holds another array of 68 points
C15_Witness ==
    /\ MeshBuilt
    /\ Len(userLandmarks.positions) = 68
    /\ userFace.width # userFace.height
    /\ \E points \in MeshPointSets :
            Len(points) = 68 /\ points # userLandmarks.positions
    /\ triangles # <<>>

\* C16: every index of every triangle returned for a 68-point set is an index
\* of the extended point sequence: at least 0 and below 72 = 68 + 4.
C16_IndicesInRange ==
    (MeshBuilt /\ Len(userLandmarks.positions) = 68) =>
        /\ Len(allPoints) = 68 + 4
        /\ \A i \in DOMAIN triangles :
                /\ Len(triangles[i]) = 3
                /\ \A k \in 1 .. 3 :
                        triangles[i][k] >= 0 /\ triangles[i][k] < Len(allPoints)

\* a mesh of 39 triangles was built for 68 points
C16_Witness ==
    MeshBuilt /\ Len(userLandmarks.positions) = 68 /\ Len(triangles) = 39

\* the corner points are at the (0-based) indices N .. N+3 of allPoints
CornersAppended ==
    LET n == Len(userLandmarks.positions)
        w == userFace.width
        h == userFace.height
    IN  /\ Len(allPoints) = n + 4
        /\ At(allPoints, n) = IPt(0, 0)
        /\ At(allPoints, n + 1) = IPt(w - 1, 0)
        /\ At(allPoints, n + 2) = IPt(0, h - 1)
        /\ At(allPoints, n + 3) = IPt(w - 1, h - 1)

\* C17: getDelaunayTriangles appends the four corner points at indices
\* N .. N+3, and each of these indices is a vertex of a returned triangle.
C17_CornersInMesh ==
    MeshBuilt =>
        /\ CornersAppended
        /\ \A c \in Len(userLandmarks.positions) .. Len(userLandmarks.positions) + 3 :
                \E i \in DOMAIN triangles : \E k \in 1 .. 3 : triangles[i][k] = c

\* the half of C17 that the function does: the corners are appended
C17_CornersAppendedOnly == MeshBuilt => CornersAppended

\* what the function returns instead: no triangle has a corner as a vertex
C17_NoCornerInMesh ==
    MeshBuilt =>
        \A i \in DOMAIN triangles : \A k \in 1 .. 3 :
            triangles[i][k] < 60

\* the landmark bounding box extended by left, right, above and below (given
\* as fractions of the face width) lies within the face image
PaddedBoxInImage(left, right, above, below) ==
    LET b == UserBounds(userLandmarks.positions)
        faceWidth == RSub(b.maxX, b.minX)
    IN  /\ RLe(I(0), RSub(b.minX, RMul(left, faceWidth)))
        /\ RLe(RAdd(b.maxX, RMul(right, faceWidth)), I(userFace.width))
        /\ RLe(I(0), RSub(b.minY, RMul(above, faceWidth)))
        /\ RLe(RAdd(b.maxY, RMul(below, faceWidth)), I(userFace.height))

\* the crop is the landmark bounding box extended by the given fractions of
\* the face width
CropIsPaddedBox(left, right, above, below) ==
    LET b == UserBounds(userLandmarks.positions)
        faceWidth == RSub(b.maxX, b.minX)
    IN  /\ srcRect.srcX = RSub(b.minX, RMul(left, faceWidth))
        /\ RAdd(srcRect.srcX, srcRect.srcW) = RAdd(b.maxX, RMul(right, faceWidth))
        /\ srcRect.srcY = RSub(b.minY, RMul(above, faceWidth))
        /\ RAdd(srcRect.srcY, srcRect.srcH) = RAdd(b.maxY, RMul(below, faceWidth))

\* C18 as stated: without clamping the fallback crop extends 30% of the face
\* width left and right of the landmark box, 45% above it and 75% below it.
C18_PaddingAsStated ==
    (FallbackReturned /\ PaddedBoxInImage(Rat(30, 100), Rat(30, 100), Rat(45, 100),
                                          Rat(75, 100))) =>
        CropIsPaddedBox(Rat(30, 100), Rat(30, 100), Rat(45, 100), Rat(75, 100))

\* C18 amended: without clamping the fallback crop extends 30% of the face
\* width left and right of the landmark box, 45% above it and 30% below it
\* (the crop is 75% of the face width taller than the box).
C18_Padding ==
    (FallbackReturned /\ PaddedBoxInImage(Rat(30, 100), Rat(30, 100), Rat(45, 100),
                                          Rat(30, 100))) =>
        /\ CropIsPaddedBox(Rat(30, 100), Rat(30, 100), Rat(45, 100), Rat(30, 100))
        /\ LET b == UserBounds(userLandmarks.positions)
           IN  srcRect.srcH = RAdd(RSub(b.maxY, b.minY),
                                   RMul(Rat(75, 100), RSub(b.maxX, b.minX)))

\* a fallback call has returned for a face whose padded landmark box lies
\* strictly inside the image, so that no clamping occurred
C18_Witness ==
    /\ FallbackReturned /\ outcome = "returned"
    /\ PaddedBoxInImage(Rat(30, 100), Rat(30, 100), Rat(45, 100), Rat(75, 100))
    /\ RLt(I(0), srcRect.srcX) /\ RLt(I(0), srcRect.srcY)
    /\ RLt(RAdd(srcRect.srcX, srcRect.srcW), I(userFace.width))
    /\ RLt(RAdd(srcRect.srcY, srcRect.srcH), I(userFace.height))

\* the source and destination triangle of mesh triangle i of the running
\* mesh-warp call
MeshSrcTriangle(i) ==
    <<At(userLandmarks.positions, triangles[i][1]),
      At(userLandmarks.positions, triangles[i][2]),
      At(userLandmarks.positions, triangles[i][3])>>
MeshDstTriangle(i) ==
    <<At(characterPoints, triangles[i][1]), At(characterPoints, triangles[i][2]),
      At(characterPoints, triangles[i][3])>>

\* the fillRect calls warpTriangle makes for mesh triangle i
MeshFills(i) == WarpFills(userFace, morphCanvas, MeshSrcTriangle(i), MeshDstTriangle(i))

\* C19: whenever a pixel of the scratch canvas is written by two different
\* triangles of the mesh, both write the same source sample to it, so that the
\* scratch canvas does not depend on the order in which triangles are warped.
C19_OrderIndependent ==
    (MeshReturned /\ PositiveRegion(characterFaceRegion)) =>
        LET F == [i \in warped |-> MeshFills(i)]
        IN  \A i \in warped : \A j \in warped :
                \A f \in F[i] : \A g \in F[j] :
                    f.p = g.p =>
                        userFace.data[SamplePosition(f.s)] = userFace.data[SamplePosition(g.s)]

\* the same with each pixel mapped by the affine map that takes the vertices
\* of the destination triangle to those of the source triangle in order: two
\* triangles that both contain a pixel map it to the same source point
C19_IntendedMapAgrees ==
    (MeshReturned /\ PositiveRegion(characterFaceRegion)) =>
        LET proper == {i \in warped : ~Collinear(MeshDstTriangle(i))}
        IN  \A i \in proper : \A j \in proper :
                \A p \in LoopPixels(morphCanvas, MeshDstTriangle(i)) :
                    LET wi == Weights(MeshDstTriangle(i), PixelPt(p))
                        wj == Weights(MeshDstTriangle(j), PixelPt(p))
                    IN  (AllNonNegative(wi) /\ AllNonNegative(wj)) =>
                            Combine(wi, MeshSrcTriangle(i)) = Combine(wj, MeshSrcTriangle(j))

\* the mesh triangles among the first n whose three indices are indices of
\* the landmark array
InRangeTriangles(n) ==
    {i \in 1 .. n : \A k \in 1 .. 3 : triangles[i][k] < Len(userLandmarks.positions)}

\* C20: mesh-warp compositing never ends in an error; every triangle whose
\* three indices are in range is handed to warpTriangle and no other is, and a
\* degenerate triangle is warped as a no-op.
C20_AnomaliesSkipped ==
    entry = "morphFaceToCharacter" =>
        /\ outcome # "threw"
        /\ warped = InRangeTriangles(triIdx - 1)
        /\ cpc = "done" =>
                /\ outcome = "returned"
                /\ warped = InRangeTriangles(Len(triangles))
                /\ \A i \in warped :
                        Collinear(MeshDstTriangle(i)) => MeshFills(i) = {}

\* a mesh-warp call has returned in which a triangle was out of range, a
\* warped triangle was degenerate, a warped triangle had a pixel mapped outside
\* the source, and a triangle after those was painted
C20_Witness ==
    /\ MeshReturned /\ outcome = "returned"
    /\ \E i \in DOMAIN triangles : i \notin warped
    /\ \E i \in warped : Collinear(MeshDstTriangle(i))
    /\ \E i \in warped :
            /\ ~Collinear(MeshDstTriangle(i))
            /\ \E p \in LoopPixels(morphCanvas, MeshDstTriangle(i)) :
                    LET w == Barycentric(MeshDstTriangle(i), Det(MeshDstTriangle(i)),
                                         p[1], p[2])
                    IN  /\ InsideTriangle(w)
                        /\ ~InHalfOpenRange(MapToSource(w, MeshSrcTriangle(i)),
                                            userFace.width, userFace.height)
    /\ \E i \in warped : MeshFills(i) # {}

Rescaled == entry = "characterPoints" /\ cpc = "done"

\* lo <= v <= hi for a number v
Within(v, lo, hi) == ~IsNaN(v) /\ RLe(lo, v) /\ RLe(v, hi)

\* the rescaled points lie in the region, the landmarks on the minimum sides
\* of the landmark box are on the region's minimum sides and those on the
\* maximum sides on its maximum sides
RescaledIntoRegion ==
    LET points == userLandmarks.positions
        b == UserBounds(points)
        r == characterFaceRegion
    IN  \A i \in DOMAIN points :
            /\ Within(characterPoints[i].x, r.x, RAdd(r.x, r.width))
            /\ Within(characterPoints[i].y, r.y, RAdd(r.y, r.height))
            /\ points[i].x = b.minX => characterPoints[i].x = r.x
            /\ points[i].y = b.minY => characterPoints[i].y = r.y
            /\ points[i].x = b.maxX => characterPoints[i].x = RAdd(r.x, r.width)
            /\ points[i].y = b.maxY => characterPoints[i].y = RAdd(r.y, r.height)

\* C21: for every 68-point landmark set each rescaled point lies within
\* [x, x+width] x [y, y+height] of faceRegion, the minimum corner of the
\* landmark box maps to (x, y) and the maximum corner to (x+width, y+height).
C21_RescaledIntoRegion ==
    (Rescaled /\ Len(userLandmarks.positions) = 68 /\ PositiveRegion(characterFaceRegion))
        => RescaledIntoRegion

\* the same for landmark boxes of positive width and height, with the scale
\* factors of the two axes independent of each other
C21_ProperBoxRescaled ==
    LET points == userLandmarks.positions
        b == UserBounds(points)
        r == characterFaceRegion
        userWidth == RSub(b.maxX, b.minX)
        userHeight == RSub(b.maxY, b.minY)
    IN  (/\ Rescaled /\ Len(points) = 68 /\ PositiveRegion(r)
         /\ RLt(I(0), userWidth) /\ RLt(I(0), userHeight))
        =>  /\ RescaledIntoRegion
            /\ \A i \in DOMAIN points :
                    /\ RMul(RSub(characterPoints[i].x, r.x), userWidth)
                            = RMul(RSub(points[i].x, b.minX), r.width)
                    /\ RMul(RSub(characterPoints[i].y, r.y), userHeight)
                            = RMul(RSub(points[i].y, b.minY), r.height)

\* what getImageData reads of a pixel: a fully transparent pixel has no colour
Visible(px) == IF px.a = 0 THEN Transparent ELSE px

\* C22: a pixel written by warpTriangle holds the sampled source pixel, alpha
\* included, whatever the destination held before the write.
C22_SourcePixelPreserved ==
    wpc = "done" =>
        \A f \in fills :
            dstCanvas.data[f.p] = Visible(srcBefore.data[SamplePosition(f.s)])

\* on a destination that was transparent before the call, a written pixel
\* holds the sampled source pixel
C22_PreservedOnTransparent ==
    wpc = "done" =>
        \A f \in fills :
            dstBefore.data[f.p] = Transparent =>
                dstCanvas.data[f.p] = Visible(srcBefore.data[SamplePosition(f.s)])

\* the vertices of triangle t as a set
Corners(t) == {t[1], t[2], t[3]}

\* C23: the mesh is the fixed topology in order: 16 jaw triangles [i, i+1, 33]
\* for i = 0..15, four left-eye triangles over 36..41, four right-eye
\* triangles over 42..47, three nose-bridge triangles [i, i+1, 33] for
\* i = 27..29, and the mouth fan [i, i+1, 33] for i = 48..58 closed by
\* [59, 48, 33].
C23_FixedTopology ==
    (entry = "getDelaunayTriangles" /\ outcome = "returned") =>
        /\ Len(triangles) = 16 + 4 + 4 + 3 + 11 + 1
        /\ \A i \in 0 .. 15 : triangles[1 + i] = <<i, i + 1, 33>>
        /\ \A k \in 17 .. 20 : Corners(triangles[k]) \subseteq 36 .. 41
        /\ \A k \in 21 .. 24 : Corners(triangles[k]) \subseteq 42 .. 47
        /\ Cardinality({triangles[k] : k \in 17 .. 24}) = 8
        /\ \A i \in 27 .. 29 : triangles[25 + (i - 27)] = <<i, i + 1, 33>>
        /\ \A i \in 48 .. 58 : triangles[28 + (i - 48)] = <<i, i + 1, 33>>
        /\ triangles[39] = <<59, 48, 33>>

\* a mesh of 39 triangles was built for 68 landmarks
C23_Witness ==
    /\ entry = "getDelaunayTriangles" /\ outcome = "returned"
    /\ Len(triangles) = 39
    /\ Len(userLandmarks.positions) = 68

\* C24: no guest face profile is lost under overlapping uploads: a profile or
\* photo that the page holds is still held after every step of any upload,
\* so two uploads whose extractions succeed end with both in faceDescriptors
\* and both in guestPhotos.
C24_NoProfileLost ==
    [][/\ DOMAIN faceDescriptors \subseteq DOMAIN faceDescriptors'
       /\ DOMAIN guestPhotos \subseteq DOMAIN guestPhotos']_vars

\* C27: whenever capturedFace is non-empty, selectedCharacter is non-null, and
\* whenever recognizedGuest is non-null, selectedCharacter is the character
\* assigned to that guest; during and after handleCapture (also while the
\* match is awaited) and after handleReset.
C27_DisplayedStateConsistent ==
    /\ capturedFace # "" => selectedCharacter # "null"
    /\ recognizedGuest # "null" =>
            selectedCharacter = getChiefGuestCharacter(recognizedGuest)

\* the first half of C27 once no match is awaited any more
C27_CharacterOnceSettled ==
    (capturedFace # "" /\ captures = EmptyMap) => selectedCharacter # "null"

\* the second half of C27 on its own
C27_GuestHasOwnCharacter ==
    recognizedGuest # "null" =>
        selectedCharacter = getChiefGuestCharacter(recognizedGuest)

\* C29: after removePhoto(guest), until a new photo is uploaded for that
\* guest, the guest's descriptor is not among the references passed to
\* matchFaceToReferences.
C29_RemovedNotMatched ==
    \A slot \in DOMAIN captures :
        DOMAIN captures[slot].refs \cap captures[slot].removed = {}

\* C25: once isActive is false or the component is unmounted, and no start is
\* pending, every MediaStream obtained has had all its tracks stopped.
C25_CameraReleased ==
    ((~isActive \/ ~camMounted) /\ pending = 0 /\ orphaned = 0) =>
        \A k \in DOMAIN tracks : tracks[k] = "stopped"


\* C26: when the props change while an earlier compositeImages run is in
\* flight, then once all runs have finished compositeImage is the composite
\* of the most recent character and face image.
C26_LatestPropsShown ==
    (/\ runs # <<>>
     /\ \A i \in DOMAIN runs : runs[i].pc = "done")
        => compositeImage = <<CompositeOf(props)>>

\* a single run that finishes stores the composite of its props
C26_SingleRunShown ==
    (Len(runs) = 1 /\ runs[1].pc = "done") => compositeImage = <<CompositeOf(props)>>

Responded == response # NoResponse

\* what C28 says of the polls and of the response
PollsAndResponse ==
    /\ polls <= 30
    /\ response = SuccessResponse =>
            /\ \E o \in observed : o.status = 1
            /\ imageFetched
    /\ Responded =>
            /\ response.success = "true" => response = SuccessResponse
            /\ (\E o \in observed : o.status = 2 \/ o.settled # "ok" \/ o.code # "000")
                    => response = ErrorResponse
            /\ (polls = 30 /\ ~\E o \in observed : o.status = 1)
                    => response = ErrorResponse

\* C28: every request terminates with a response after at most 30 status
\* polls; success is true only if some poll observed status 1 and the result
\* image was fetched; a poll observing status 2, a non-OK or non-'000' reply,
\* or 30 polls without completion end in the status-500 response with
\* success false.
C28_RespondsWithin30Polls == []PollsAndResponse /\ <>Responded

\* a request answered with the error response after 30 polls, none of which
\* saw the task completed or failed
C28_Witness ==
    /\ response = ErrorResponse
    /\ polls = 30
    /\ \A o \in observed : o.settled = "ok" /\ o.code = "000" /\ o.status \notin {1, 2}

\* C30: matchFaceToReferences returns null exactly when no face is detected in
\* the captured image or no reference has a distance below 0.6; otherwise it
\* returns the name of a reference with minimal distance, with a confidence
\* within [0, 100].
C30_BestMatchOrNull ==
    (mpc = "done" /\ matchResult.kind # "rejected") =>
        LET refs == {referenceDescriptors[i] : i \in DOMAIN referenceDescriptors}
            below == {e \in refs : RLt(e.distance, Rat(6, 10))}
        IN  /\ matchResult.kind \in {"null", "match"}
            /\ matchResult.kind = "null" <=> (~capturedDescriptor \/ below = {})
            /\ matchResult.kind = "match" =>
                    /\ \E e \in refs :
                            /\ e.name = matchResult.name
                            /\ \A f \in refs : RLe(e.distance, f.distance)
                    /\ RLe(I(0), matchResult.confidence)
                    /\ RLe(matchResult.confidence, I(100))

\* a call that returned the second of two references below the threshold,
\* the nearer one
C30_Witness ==
    /\ mpc = "done" /\ matchResult.kind = "match"
    /\ Len(referenceDescriptors) = 2
    /\ matchResult.name = referenceDescriptors[2].name
    /\ RLt(referenceDescriptors[1].distance, Rat(6, 10))
    /\ RLt(referenceDescriptors[2].distance, referenceDescriptors[1].distance)

====
